---- MODULE Spec2Model ----
(***************************************************************************)
(* A model of the colord plugin bundles (cmyk, hwb, lch, lab, xyz, mix,    *)
(* harmonies, a11y): the parser registry the plugins append to, the        *)
(* object and string parsers they register, and the colour-model           *)
(* converters behind toCmyk / toHwb.                                       *)
(*                                                                         *)
(* JavaScript numbers are IEEE-754 binary64 values.  They are modelled     *)
(* bit-exactly for + - * / % Math.round Math.floor and the comparisons:    *)
(* a finite number is sign * m * 2^e with m an odd natural below 2^53      *)
(* (or zero), and m is held as a little-endian sequence of base-2^14       *)
(* limbs because the checker's integers are 32 bits wide.                  *)
(***************************************************************************)
EXTENDS Integers, Sequences, FiniteSets, TLC

(***************************************************************************)
(* Natural numbers of any size: little-endian limbs, no leading zero limb, *)
(* zero is the empty sequence.                                             *)
(***************************************************************************)
LimbBits == 7 + 7
Base == 2^LimbBits

\* the element of a set of one element: in The({F(v) : v \in {x}}), x is computed
\* before F is applied to it
The(S) == CHOOSE y \in S : TRUE

Limb(a, i) == IF i <= Len(a) THEN a[i] ELSE 0

Max2(i, j) == IF i > j THEN i ELSE j
Min2(i, j) == IF i < j THEN i ELSE j

RECURSIVE BStrip(_)
BStrip(a) ==
  IF a = <<>> THEN a
  ELSE IF a[Len(a)] = 0 THEN BStrip(SubSeq(a, 1, Len(a) - 1)) ELSE a

RECURSIVE BOfNat(_)
BOfNat(n) == IF n = 0 THEN <<>> ELSE <<n % Base>> \o BOfNat(n \div Base)

\* the value of a natural of at most two limbs
BToNat(a) == Limb(a, 1) + Base * Limb(a, 2)

\* a and b, of a length, compared from limb i down
RECURSIVE BCmpFrom(_, _, _)
BCmpFrom(a, b, i) ==
  IF i = 0 THEN 0
  ELSE IF a[i] # b[i] THEN (IF a[i] > b[i] THEN 1 ELSE -1)
  ELSE BCmpFrom(a, b, i - 1)

\* -1, 0, 1 as a < b, a = b, a > b
BCmp(a, b) ==
  IF Len(a) > Len(b) THEN 1
  ELSE IF Len(a) < Len(b) THEN -1
  ELSE BCmpFrom(a, b, Len(a))

\* The limbs below s.i are done: s.sum is what they come to and s.c the carry
\* into limb s.i.  Limb s.i comes to t.
Carried(s, t) == [i |-> s.i + 1, c |-> t \div Base, sum |-> Append(s.sum, t % Base)]

\* the limbs s.sum with the last carry
Summed(s) == IF s.c = 0 THEN s.sum ELSE Append(s.sum, s.c)

RECURSIVE BAddFrom(_, _, _)
BAddFrom(a, b, s) ==
  IF s.i > Len(a) /\ s.i > Len(b) THEN Summed(s)
  ELSE BAddFrom(a, b, Carried(s, Limb(a, s.i) + Limb(b, s.i) + s.c))

BAdd(a, b) == BAddFrom(a, b, [i |-> 1, c |-> 0, sum |-> <<>>])

\* s.c is what limb s.i has to lend to the limbs below it, t what is left of it
Lent(s, t) ==
  [i |-> s.i + 1, c |-> IF t < 0 THEN 1 ELSE 0, sum |-> Append(s.sum, t % Base)]

RECURSIVE BSubFrom(_, _, _)
BSubFrom(a, b, s) ==
  IF s.i > Len(a) THEN s.sum
  ELSE BSubFrom(a, b, Lent(s, a[s.i] - Limb(b, s.i) - s.c))

\* a - b for a >= b
BSub(a, b) == BStrip(BSubFrom(a, b, [i |-> 1, c |-> 0, sum |-> <<>>]))

RECURSIVE BMulSmallFrom(_, _, _)
BMulSmallFrom(a, k, s) ==
  IF s.i > Len(a) THEN Summed(s)
  ELSE BMulSmallFrom(a, k, Carried(s, a[s.i] * k + s.c))

\* a * k for 0 <= k < Base
BMulSmall(a, k) ==
  IF k = 0 THEN <<>> ELSE BMulSmallFrom(a, k, [i |-> 1, c |-> 0, sum |-> <<>>])

Zeros(n) == [i \in 1..n |-> 0]

\* s.sum is a times the limbs of b below s.i
RECURSIVE BMulFrom(_, _, _)
BMulFrom(a, b, s) ==
  IF s.i > Len(b) THEN s.sum
  ELSE BMulFrom(a, b, [i |-> s.i + 1,
                       sum |-> IF b[s.i] = 0 THEN s.sum
                               ELSE BAdd(s.sum,
                                         Zeros(s.i - 1) \o BMulSmall(a, b[s.i]))])

BMul(a, b) ==
  IF a = <<>> \/ b = <<>> THEN <<>> ELSE BMulFrom(a, b, [i |-> 1, sum |-> <<>>])

\* a * 2^n
BShl(a, n) ==
  IF a = <<>> THEN a
  ELSE Zeros(n \div LimbBits) \o BMulSmall(a, 2^(n % LimbBits))

\* s.q is the quotient of the limbs of a above s.i, s.r their remainder
RECURSIVE BDivSmallFrom(_, _, _)
BDivSmallFrom(a, k, s) ==
  IF s.i = 0 THEN s.q
  ELSE BDivSmallFrom(a, k, [i |-> s.i - 1,
                            r |-> (s.r * Base + a[s.i]) % k,
                            q |-> <<(s.r * Base + a[s.i]) \div k>> \o s.q])

\* a \div k for 0 < k <= Base
BDivSmall(a, k) == BStrip(BDivSmallFrom(a, k, [i |-> Len(a), r |-> 0, q |-> <<>>]))

\* a \div 2^n for n < LimbBits: each limb gives up its low bits to the limb below
Lowered(a, n) ==
  BStrip(SubSeq([i \in 1..Len(a) |->
                   a[i] \div 2^n + (Limb(a, i + 1) % 2^n) * 2^(LimbBits - n)],
                1, Len(a)))

\* a \div 2^n
BShr(a, n) ==
  IF n \div LimbBits >= Len(a) THEN <<>>
  ELSE Lowered(SubSeq(a, n \div LimbBits + 1, Len(a)), n % LimbBits)

\* the number of significant bits of n < 2^(2 * LimbBits)
NatBits(n) ==
  CHOOSE k \in 0..(2 * LimbBits) : n < 2^k /\ (k = 0 \/ n >= 2^(k - 1))

\* the number of significant bits of a
BLen(a) == IF a = <<>> THEN 0 ELSE (Len(a) - 1) * LimbBits + NatBits(a[Len(a)])

\* bit n (from 0) of a
BBit(a, n) == (Limb(a, n \div LimbBits + 1) \div 2^(n % LimbBits)) % 2

\* the number of trailing zero bits of a limb n > 0
NatTz(n) == CHOOSE k \in 0..LimbBits : n % 2^k = 0 /\ n % 2^(k + 1) # 0

\* the first limb of a > 0 that is not zero
Bottom(a) == CHOOSE i \in 1..Len(a) : a[i] # 0 /\ \A j \in 1..(i - 1) : a[j] = 0

\* the number of trailing zero bits of a > 0
BTz(a) == (Bottom(a) - 1) * LimbBits + NatTz(a[Bottom(a)])

\* whether the low n bits of a are all zero
BLowZero(a, n) == a = <<>> \/ BTz(a) >= n

\* the largest q in lo..hi with b * q <= r, given b * lo <= r
RECURSIVE QuotientLimb(_, _, _, _)
QuotientLimb(r, b, lo, hi) ==
  IF lo >= hi THEN lo
  ELSE LET mid == (lo + hi + 1) \div 2
       IN  IF BCmp(BMulSmall(b, mid), r) <= 0
           THEN QuotientLimb(r, b, mid, hi)
           ELSE QuotientLimb(r, b, lo, mid - 1)

\* The limb r \div b for r < b * Base.  With R and B what r and b are over 2^sh,
\* where B keeps the leading LimbBits bits of b, the limb lies from R \div (B + 1)
\* to (R + 1) \div B.
Leading(a, sh) == BToNat(BShr(a, sh))

Digit(r, b, sh) ==
  IF BCmp(r, b) < 0 THEN 0
  ELSE IF sh = 0 THEN Leading(r, 0) \div Leading(b, 0)
  ELSE QuotientLimb(r, b, Leading(r, sh) \div (Leading(b, sh) + 1),
                    Min2((Leading(r, sh) + 1) \div Leading(b, sh), Base - 1))

\* the limb d of the quotient put before the limbs s.q, and what is left of r
Taken(s, r, b, d) ==
  [i |-> s.i - 1, q |-> <<d>> \o s.q, r |-> BSub(r, BMulSmall(b, d))]

\* s.q is the quotient of the limbs of a above s.i, s.r their remainder
RECURSIVE BDivModFrom(_, _, _, _)
BDivModFrom(a, b, sh, s) ==
  IF s.i = 0 THEN [q |-> BStrip(s.q), r |-> s.r]
  ELSE BDivModFrom(a, b, sh,
                   The({Taken(s, r, b, Digit(r, b, sh)) :
                          r \in {BStrip(<<a[s.i]>> \o s.r)}}))

\* quotient and remainder of a by b > 0 (long division, a limb at a time)
BDivMod(a, b) ==
  BDivModFrom(a, b, Max2(BLen(b) - LimbBits, 0), [i |-> Len(a), q |-> <<>>, r |-> <<>>])

(***************************************************************************)
(* JavaScript numbers (IEEE-754 binary64, round to nearest, ties to even). *)
(* Subnormal results do not arise from the values the model computes and   *)
(* are not rounded specially.                                              *)
(***************************************************************************)
MantissaBits == 52 + 1
MaxExponent == 2^10

NaN == [k |-> "nan"]
Inf(s) == [k |-> "inf", s |-> s]
Fin(s, m, e) == [k |-> "fin", s |-> s, m |-> m, e |-> e]

\* sign * M * 2^e with M of at most 53 bits, in canonical form (m odd or zero);
\* Infinity beyond the largest number
Canon(s, M, e) ==
  IF M = <<>> THEN Fin(s, <<>>, 0)
  ELSE IF BLen(M) + e > MaxExponent THEN Inf(s)
  ELSE Fin(s, BShr(M, BTz(M)), e + BTz(M))

\* M without its low sh > 0 bits, rounded up when the first of them is set and
\* either more follows or the kept part is odd
Dropped(M, sh, sticky) ==
  BAdd(BShr(M, sh),
       IF /\ BBit(M, sh - 1) = 1
          /\ sticky \/ ~BLowZero(M, sh - 1) \/ BBit(M, sh) = 1
       THEN <<1>> ELSE <<>>)

\* the binary64 value nearest to sign * (M + sticky fraction) * 2^e: the bits
\* that M has beyond 53 are dropped
RoundNearestEven(s, M, e, sticky) ==
  Canon(s,
        IF BLen(M) <= MantissaBits THEN M
        ELSE Dropped(M, BLen(M) - MantissaBits, sticky),
        e + Max2(0, BLen(M) - MantissaBits))

Abs(n) == IF n < 0 THEN -n ELSE n

\* the number with integer value n
FromInt(n) == Canon(IF n < 0 THEN 1 ELSE 0, BOfNat(Abs(n)), 0)

IsNaN(x) == x.k = "nan"
IsFinite(x) == x.k = "fin"
IsZero(x) == x.k = "fin" /\ x.m = <<>>

FNeg(x) ==
  IF x.k = "nan" THEN x
  ELSE IF x.k = "inf" THEN Inf(1 - x.s)
  ELSE Fin(1 - x.s, x.m, x.e)

\* The magnitudes Mx and My at the common exponent e, of signs sx and sy, are
\* added, or the smaller taken from the larger; equal magnitudes of opposite
\* sign give +0
Aligned(sx, sy, Mx, My, e) ==
  RoundNearestEven(
    IF sx = sy \/ BCmp(Mx, My) > 0 THEN sx ELSE IF BCmp(Mx, My) < 0 THEN sy ELSE 0,
    IF sx = sy THEN BAdd(Mx, My)
    ELSE BSub(IF BCmp(Mx, My) >= 0 THEN Mx ELSE My,
              IF BCmp(Mx, My) >= 0 THEN My ELSE Mx),
    e, FALSE)

\* x + y
FAdd(x, y) ==
  IF x.k = "nan" \/ y.k = "nan" THEN NaN
  ELSE IF x.k = "inf" THEN (IF y.k = "inf" /\ y.s # x.s THEN NaN ELSE x)
  ELSE IF y.k = "inf" THEN y
  ELSE IF x.m = <<>> THEN (IF y.m = <<>> THEN Fin(IF x.s = 1 /\ y.s = 1 THEN 1 ELSE 0, <<>>, 0) ELSE y)
  ELSE IF y.m = <<>> THEN x
  ELSE Aligned(x.s, y.s, BShl(x.m, x.e - Min2(x.e, y.e)),
               BShl(y.m, y.e - Min2(x.e, y.e)), Min2(x.e, y.e))

\* x - y
FSub(x, y) == FAdd(x, FNeg(y))

Xor(s, t) == IF s = t THEN 0 ELSE 1

\* x * y
FMul(x, y) ==
  IF x.k = "nan" \/ y.k = "nan" THEN NaN
  ELSE IF x.k = "inf" \/ y.k = "inf"
       THEN (IF IsZero(x) \/ IsZero(y) THEN NaN ELSE Inf(Xor(x.s, y.s)))
  ELSE RoundNearestEven(Xor(x.s, y.s), BMul(x.m, y.m), x.e + y.e, FALSE)

\* the bits by which the dividend is extended for a quotient of 55 bits or more
Extension(x, y) == Max2(0, MantissaBits + 2 + BLen(y.m) - BLen(x.m))

\* the quotient d.q at exponent e, a remainder making it inexact
Quotient(s, d, e) == RoundNearestEven(s, d.q, e, d.r # <<>>)

\* x / y
FDiv(x, y) ==
  IF x.k = "nan" \/ y.k = "nan" THEN NaN
  ELSE IF x.k = "inf" THEN (IF y.k = "inf" THEN NaN ELSE Inf(Xor(x.s, y.s)))
  ELSE IF y.k = "inf" THEN Fin(Xor(x.s, y.s), <<>>, 0)
  ELSE IF y.m = <<>> THEN (IF x.m = <<>> THEN NaN ELSE Inf(Xor(x.s, y.s)))
  ELSE IF x.m = <<>> THEN Fin(Xor(x.s, y.s), <<>>, 0)
  ELSE Quotient(Xor(x.s, y.s), BDivMod(BShl(x.m, Extension(x, y)), y.m),
                x.e - y.e - Extension(x, y))

\* -1, 0, 1 as |x| < |y|, |x| = |y|, |x| > |y|, for finite x and y
MagCmp(x, y) ==
  IF x.m = <<>> THEN (IF y.m = <<>> THEN 0 ELSE -1)
  ELSE IF y.m = <<>> THEN 1
  ELSE IF BLen(x.m) + x.e > BLen(y.m) + y.e THEN 1
  ELSE IF BLen(x.m) + x.e < BLen(y.m) + y.e THEN -1
  ELSE BCmp(BShl(x.m, x.e - Min2(x.e, y.e)), BShl(y.m, y.e - Min2(x.e, y.e)))

\* -1, 0, 1 as x < y, x = y, x > y, for x and y other than NaN
FCmp(x, y) ==
  IF x.k = "inf" THEN
    (IF y.k = "inf" /\ y.s = x.s THEN 0 ELSE IF x.s = 0 THEN 1 ELSE -1)
  ELSE IF y.k = "inf" THEN (IF y.s = 0 THEN -1 ELSE 1)
  ELSE IF x.m = <<>> /\ y.m = <<>> THEN 0
  ELSE IF x.s # y.s THEN
    (IF x.m = <<>> THEN (IF y.s = 0 THEN -1 ELSE 1) ELSE IF x.s = 0 THEN 1 ELSE -1)
  ELSE (IF x.s = 0 THEN 1 ELSE -1) * MagCmp(x, y)

\* x > y, x < y, x >= y, x <= y, x === y: false whenever an operand is NaN
FGt(x, y) == x.k # "nan" /\ y.k # "nan" /\ FCmp(x, y) > 0
FLt(x, y) == x.k # "nan" /\ y.k # "nan" /\ FCmp(x, y) < 0
FGe(x, y) == x.k # "nan" /\ y.k # "nan" /\ FCmp(x, y) >= 0
FLe(x, y) == x.k # "nan" /\ y.k # "nan" /\ FCmp(x, y) <= 0
FEq(x, y) == x.k # "nan" /\ y.k # "nan" /\ FCmp(x, y) = 0

\* Math.floor(x)
MathFloor(x) ==
  IF x.k # "fin" \/ x.e >= 0 THEN x
  ELSE Canon(x.s, BAdd(BShr(x.m, -x.e), IF x.s = 0 THEN <<>> ELSE <<1>>), 0)

\* Math.round(x): the nearest integer, a tie going towards +Infinity
MathRound(x) ==
  IF x.k # "fin" \/ x.e >= 0 THEN x
  ELSE Canon(x.s,
             BAdd(BShr(x.m, -x.e),
                  IF /\ BBit(x.m, -x.e - 1) = 1
                     /\ x.s = 0 \/ ~BLowZero(x.m, -x.e - 1)
                  THEN <<1>> ELSE <<>>),
             0)

\* x % y: the remainder with the sign of x
FMod(x, y) ==
  IF x.k = "nan" \/ y.k = "nan" \/ x.k = "inf" \/ IsZero(y) THEN NaN
  ELSE IF y.k = "inf" \/ x.m = <<>> THEN x
  ELSE Canon(x.s,
             BDivMod(BShl(x.m, x.e - Min2(x.e, y.e)),
                     BShl(y.m, y.e - Min2(x.e, y.e))).r,
             Min2(x.e, y.e))

\* Math.max and Math.min of two numbers (+0 is larger than -0)
MathMax2(x, y) ==
  IF x.k = "nan" \/ y.k = "nan" THEN NaN
  ELSE LET Larger(c) ==
             IF c > 0 THEN x
             ELSE IF c < 0 THEN y
             ELSE IF x.k = "fin" /\ x.s = 1 THEN y ELSE x
       IN  Larger(FCmp(x, y))

MathMin2(x, y) ==
  IF x.k = "nan" \/ y.k = "nan" THEN NaN
  ELSE LET Smaller(c) ==
             IF c < 0 THEN x
             ELSE IF c > 0 THEN y
             ELSE IF x.k = "fin" /\ x.s = 1 THEN x ELSE y
       IN  Smaller(FCmp(x, y))

MathMax(x, y, z) == MathMax2(MathMax2(x, y), z)
MathMin(x, y, z) == MathMin2(MathMin2(x, y), z)

(***************************************************************************)
(* Math.sqrt is correctly rounded.  Math.pow, Math.cbrt, Math.cos,         *)
(* Math.sin and Math.atan2 are implementation-approximated in ECMAScript:  *)
(* an engine returns a value within about one unit in the last place of    *)
(* the exact result.  The model computes the exact result in fixed point   *)
(* with FracBits fractional bits and rounds it to the nearest binary64     *)
(* value.  XOne is 1 in fixed point; fixed-point values are naturals.      *)
(***************************************************************************)
FracLimbs == 3 + 3
FracBits == FracLimbs * LimbBits
WideLimbs == 5 + 5
WideBits == WideLimbs * LimbBits
XOne == Zeros(FracLimbs) \o <<1>>

\* products and quotients of fixed-point values with p limbs of fraction
XMul(a, b, p) == BShr(BMul(a, b), p * LimbBits)
XDiv(a, b, p) == BDivMod(BShl(a, p * LimbBits), b).q

\* a - b, or zero when b exceeds a by the error of the last place
Monus(a, b) == IF BCmp(a, b) >= 0 THEN BSub(a, b) ELSE <<>>

\* The terms t_0, t_1, ... of a power series, summed apart by parity: s.t is the
\* next term, the one of index n.  With fact the terms are t, t*q/((n+1)(n+2)),
\* ...; without, they are t/n, t*q/(n+2), ...
Following(t, q, n, fact, p) ==
  BDivSmall(XMul(t, q, p), IF fact THEN (n + 1) * (n + 2) ELSE 1)

Summand(t, n, fact) == IF fact THEN t ELSE BDivSmall(t, n)

\* the term s.t and the term u after it, added each to the sum of its parity
Pair(s, u, q, n, fact, p) ==
  IF (n \div 2) % 2 = 0
  THEN [even |-> BAdd(s.even, Summand(s.t, n, fact)),
        odd |-> BAdd(s.odd, Summand(u, n + 2, fact)),
        t |-> Following(u, q, n + 2, fact, p)]
  ELSE [even |-> BAdd(s.even, Summand(u, n + 2, fact)),
        odd |-> BAdd(s.odd, Summand(s.t, n, fact)),
        t |-> Following(u, q, n + 2, fact, p)]

RECURSIVE Series(_, _, _, _, _)
Series(s, q, n, fact, p) ==
  IF s.t = <<>> THEN s
  ELSE Series(Pair(s, Following(s.t, q, n, fact, p), q, n, fact, p),
              q, n + 4, fact, p)

\* the two sums together, the odd one taken from the even one when alt
Total(s, alt) == IF alt THEN Monus(s.even, s.odd) ELSE BAdd(s.even, s.odd)

\* the sum of the series from the term t on, with alternating signs when alt
Sum(t, q, n, fact, alt, p) ==
  The({Total(s, alt) :
         s \in {Series([even |-> <<>>, odd |-> <<>>, t |-> t], q, n, fact, p)}})

\* atan z for 0 <= z <= 1/2, atanh z for 0 <= z <= 1/3
XAtan(z, p) == Sum(z, XMul(z, z, p), 1, FALSE, TRUE, p)
XAtanh(z) == Sum(z, XMul(z, z, FracLimbs), 1, FALSE, FALSE, FracLimbs)

\* ln 2 = 2 atanh(1/3);  pi = 16 atan(1/5) - 4 atan(1/239), pi also with WideBits
XLn2 == BShl(XAtanh(BDivSmall(XOne, 3)), 1)
XPiWide ==
  LET Machin(atan) == BSub(BShl(atan[5], 4), BShl(atan[239], 2))
  IN  Machin([k \in {5, 239} |->
                XAtan(BDivSmall(Zeros(WideLimbs) \o <<1>>, k), WideLimbs)])
XPi == BShr(XPiWide, WideBits - FracBits)

\* ln m for 1 <= m < 2
XLn(m) == BShl(XAtanh(XDiv(BSub(m, XOne), BAdd(m, XOne), FracLimbs)), 1)

\* e^r for 0 <= r < 2: the even and the odd terms of the series
Terms(r, q) ==
  BAdd(Sum(XOne, q, 0, TRUE, FALSE, FracLimbs), Sum(r, q, 1, TRUE, FALSE, FracLimbs))

XExp(r) == Terms(r, XMul(r, r, FracLimbs))

\* cos r (sin r when not cos) for 0 <= r < 2
XTrig(r, cos) ==
  Sum(IF cos THEN XOne ELSE r, XMul(r, r, FracLimbs), IF cos THEN 0 ELSE 1,
      TRUE, TRUE, FracLimbs)

\* M * 2^e as a natural, the fraction dropped
BScale(M, e) == IF e >= 0 THEN BShl(M, e) ELSE BShr(M, -e)

\* ln x of a finite x > 0, as sign and fixed-point magnitude: x = m * 2^k with
\* 1 <= m < 2, and ln x = k ln 2 + ln m
Log(k, ln2, lnm) ==
  IF k >= 0 THEN [s |-> 0, v |-> BAdd(BMulSmall(ln2, k), lnm)]
  ELSE [s |-> 1, v |-> BSub(BMulSmall(ln2, -k), lnm)]

LnOf(x) ==
  The({Log(x.e + BLen(x.m) - 1, XLn2, lnm) :
         lnm \in {XLn(BScale(x.m, FracBits - (BLen(x.m) - 1)))}})

\* e^y of a sign s and fixed-point magnitude v, as a number: y = K ln 2 + r with
\* 0 <= r < ln 2, and e^y = 2^K e^r
Whole(q) == IF Len(q) > 2 THEN 2 * MaxExponent ELSE Min2(BToNat(q), 2 * MaxExponent)

Scaled(K, r) ==
  IF K < -MaxExponent THEN Fin(0, <<>>, 0)
  ELSE RoundNearestEven(0, XExp(r), K - FracBits, r # <<>>)

Split(s, d, ln2) ==
  Scaled(IF s = 0 THEN Whole(d.q)
         ELSE IF d.r = <<>> THEN -Whole(d.q)
         ELSE -(Whole(d.q) + 1),
         IF s = 0 \/ d.r = <<>> THEN d.r ELSE BSub(ln2, d.r))

Reduced(s, v, ln2) == Split(s, BDivMod(v, ln2), ln2)

ExpOf(s, v) == Reduced(s, v, XLn2)

\* the number r with the sign s
Signed(s, r) == IF r.k = "fin" THEN Fin(s, r.m, r.e) ELSE Inf(s)

\* e^(y ln x) for the logarithm ln of x
Power(ln, y) == ExpOf(Xor(ln.s, y.s), BScale(BMul(ln.v, y.m), y.e))

\* Math.pow(x, y)
MathPow(x, y) ==
  IF y.k = "nan" THEN NaN
  ELSE IF IsZero(y) THEN FromInt(1)
  ELSE IF x.k = "nan" THEN NaN
  ELSE LET odd == y.k = "fin" /\ y.e = 0
           whole == y.k = "fin" /\ y.e >= 0
           s == IF x.s = 1 /\ odd THEN 1 ELSE 0
           Beyond(c) ==
             IF c = 0 THEN NaN
             ELSE IF (c > 0) = (y.s = 0) THEN Inf(0) ELSE Fin(0, <<>>, 0)
       IN  IF x.k = "inf" THEN (IF y.s = 0 THEN Inf(s) ELSE Fin(s, <<>>, 0))
           ELSE IF x.m = <<>> THEN (IF y.s = 0 THEN Fin(s, <<>>, 0) ELSE Inf(s))
           ELSE IF y.k = "inf" THEN Beyond(MagCmp(x, FromInt(1)))
           ELSE IF x.s = 1 /\ ~whole THEN NaN
           ELSE IF y.s = 0 /\ y.e = 0 /\ Len(y.m) = 1 /\ y.m[1] <= 3
           THEN RoundNearestEven(s,
                                 BMul(BMul(x.m, IF y.m[1] >= 2 THEN x.m ELSE <<1>>),
                                      IF y.m[1] = 3 THEN x.m ELSE <<1>>),
                                 y.m[1] * x.e, FALSE)
           ELSE Signed(s, The({Power(ln, y) : ln \in {LnOf(Fin(0, x.m, x.e))}}))

\* e^(ln / 3) for the logarithm ln
Root(ln) == ExpOf(ln.s, BDivSmall(ln.v, 3))

\* Math.cbrt(x)
MathCbrt(x) ==
  IF x.k # "fin" \/ x.m = <<>> THEN x
  ELSE Signed(x.s, The({Root(ln) : ln \in {LnOf(Fin(0, x.m, x.e))}}))

\* the largest r with r * r <= M, by Newton's iteration downwards from r > sqrt(M)
RECURSIVE ISqrtFrom(_, _)
ISqrtFrom(M, r) ==
  LET Step(next) == IF BCmp(next, r) >= 0 THEN r ELSE ISqrtFrom(M, next)
  IN  Step(BShr(BAdd(r, BDivMod(M, r).q), 1))

\* the bits that extend the mantissa, leaving an even exponent
Even(e) == 2 * (MantissaBits + 2) + (e % 2)

\* the root r of M at exponent e, inexact unless M is the square of r
Inexact(M, r, e) == RoundNearestEven(0, r, e, BMul(r, r) # M)

SquareRoot(M, e) == Inexact(M, ISqrtFrom(M, BShl(<<1>>, (BLen(M) + 1) \div 2)), e)

\* Math.sqrt(x)
MathSqrt(x) ==
  IF x.k = "nan" THEN NaN
  ELSE IF x.k = "fin" /\ x.m = <<>> THEN x
  ELSE IF x.s = 1 THEN NaN
  ELSE IF x.k = "inf" THEN x
  ELSE SquareRoot(BShl(x.m, Even(x.e)), (x.e - Even(x.e)) \div 2)

\* |x| as the nearest q quarter turns and a rest of at most pi/4 either way.  The
\* rest w has WideBits of fraction, so that it is accurate next to a multiple of
\* pi/2, and neg tells that it is negative.
Rest(d, pi) ==
  [q |-> Limb(d.q, 1) % 4,
   neg |-> BCmp(d.r, pi) < 0,
   w |-> BShr(BSub(IF BCmp(d.r, pi) < 0 THEN pi ELSE d.r,
                   IF BCmp(d.r, pi) < 0 THEN d.r ELSE pi), 2)]

Halves(x, pi) ==
  Rest(BDivMod(BAdd(BShl(BScale(x.m, x.e + WideBits), 2), pi), BShl(pi, 1)), pi)

Quadrant(x) == Halves(x, XPiWide)

\* cos (sin when not cos) of the magnitude of the rest a.w, with the sign s: a
\* tiny rest has cos 1 and is its own sine, to the last place
Tiny(w) == BLen(w) <= WideBits - MantissaBits \div 2

Trig(a, cos, s) ==
  RoundNearestEven(s,
                   IF ~Tiny(a.w) THEN XTrig(BShr(a.w, WideBits - FracBits), cos)
                   ELSE IF cos THEN XOne ELSE a.w,
                   IF Tiny(a.w) /\ ~cos THEN -WideBits ELSE -FracBits,
                   a.w # <<>>)

\* the cosine of x from its quarter turns and rest
Cosine(a) ==
  Trig(a, a.q % 2 = 0,
       IF a.q = 0 THEN 0
       ELSE IF a.q = 2 THEN 1
       ELSE IF (a.q = 1) = a.neg THEN 0 ELSE 1)

\* Math.cos(x)
MathCos(x) == IF x.k # "fin" THEN NaN ELSE Cosine(Quadrant(x))

\* the sine of a number of sign s from its quarter turns and rest
Sine(s, a) ==
  Trig(a, a.q % 2 = 1,
       Xor(s, IF a.q = 1 THEN 0
              ELSE IF a.q = 3 THEN 1
              ELSE IF (a.q = 0) = a.neg THEN 1 ELSE 0))

\* Math.sin(x)
MathSin(x) ==
  IF x.k # "fin" THEN NaN
  ELSE IF x.m = <<>> THEN x
  ELSE Sine(x.s, Quadrant(x))

\* atan t for 0 <= t <= 1: beyond 1/2 it is pi/4 - atan((1 - t) / (1 + t))
Far(t) == BCmp(BShl(t, 1), XOne) > 0

Near(a, far, pi) == IF far THEN BSub(BShr(pi, 2), a) ELSE a

XAtanUnit(t, pi) ==
  Near(XAtan(IF Far(t) THEN XDiv(BSub(XOne, t), BAdd(XOne, t), FracLimbs) ELSE t,
             FracLimbs),
       Far(t), pi)

\* Math.atan2(y, x): the angle of (|x|, |y|) is atan of the smaller over the
\* larger, taken from pi/2 when |y| is the larger, and from pi when x is negative
Rounded(s, angle) == RoundNearestEven(s, angle, -FracBits, angle # <<>>)

Turned(s, up, pi) == IF s = 0 THEN up ELSE BSub(pi, up)

Octant(atan, over, pi) == IF over THEN BSub(BShr(pi, 1), atan) ELSE atan

Slope(X, Y, over, pi) ==
  Octant(XAtanUnit(BDivMod(BShl(IF over THEN X ELSE Y, FracBits),
                           IF over THEN Y ELSE X).q, pi),
         over, pi)

Ratio(x, y, X, Y, pi) ==
  Turned(x.s,
         IF x.k = "inf"
         THEN (IF y.k = "inf" THEN BShr(pi, 2) ELSE <<>>)
         ELSE IF y.k = "inf" \/ X = <<>>
         THEN (IF Y = <<>> /\ y.k = "fin" THEN <<>> ELSE BShr(pi, 1))
         ELSE Slope(X, Y, BCmp(Y, X) > 0, pi),
         pi)

At(x, y, e, pi) ==
  Rounded(y.s,
          Ratio(x, y, IF x.k = "fin" THEN BShl(x.m, x.e - e) ELSE <<>>,
                IF y.k = "fin" THEN BShl(y.m, y.e - e) ELSE <<>>, pi))

MathAtan2(y, x) ==
  IF x.k = "nan" \/ y.k = "nan" THEN NaN
  ELSE At(x, y, Min2(IF x.k = "fin" THEN x.e ELSE 0, IF y.k = "fin" THEN y.e ELSE 0),
          XPi)

\* 0, 1, 100 = 25 * 2^2, 255 and 360 = 45 * 2^3
Zero == Fin(0, <<>>, 0)
One == Fin(0, <<1>>, 0)
F100 == Fin(0, <<25>>, 2)
F255 == Fin(0, <<255>>, 0)
F360 == Fin(0, <<45>>, 3)

(***************************************************************************)
(* JavaScript values, as far as the parsers tell them apart.  A string is  *)
(* a sequence of one-character strings.                                    *)
(***************************************************************************)
Undefined == [t |-> "undefined"]
JsNull == [t |-> "null"]
Symbol == [t |-> "symbol"]
PlainObject == [t |-> "object"]
Bool(v) == [t |-> "boolean", v |-> v]
Num(x) == [t |-> "number", n |-> x]
Str(cs) == [t |-> "string", s |-> cs]

\* what a call that throws yields instead of a value
TypeError == [t |-> "throw", error |-> "TypeError"]

Digits == <<"0", "1", "2", "3", "4", "5", "6", "7", "8", "9">>
IsDigit(c) == \E i \in 1..10 : Digits[i] = c
DigitValue(c) == (CHOOSE i \in 1..10 : Digits[i] = c) - 1
\* \s, for the white space the inputs are written with
IsSpace(c) == c \in {" ", "\t", "\n"}

RECURSIVE DigitsToBig(_, _, _)
DigitsToBig(cs, i, acc) ==
  IF i > Len(cs) THEN acc
  ELSE IF cs[i] = "." THEN DigitsToBig(cs, i + 1, acc)
  ELSE DigitsToBig(cs, i + 1,
                   BAdd(BMulSmall(acc, 10), BOfNat(DigitValue(cs[i]))))

RECURSIVE BPow10(_)
BPow10(n) == IF n = 0 THEN <<1>> ELSE BMulSmall(BPow10(n - 1), 10)

\* whether cs[i..j] is \d*\.?\d* with at least one digit (StrUnsignedDecimalLiteral
\* without an exponent part)
IsDecimal(cs, i, j) ==
  /\ i <= j
  /\ \A n \in i..j : IsDigit(cs[n]) \/ cs[n] = "."
  /\ Cardinality({n \in i..j : cs[n] = "."}) <= 1
  /\ \E n \in i..j : IsDigit(cs[n])

\* the digits after the decimal point of cs
FractionDigits(cs) ==
  IF \E n \in 1..Len(cs) : cs[n] = "."
  THEN Len(cs) - (CHOOSE n \in 1..Len(cs) : cs[n] = ".")
  ELSE 0

\* the number a decimal literal of at most 15 significant digits denotes: both its
\* digits and the power of ten are exact, and the division rounds once
DecimalValue(cs) ==
  FDiv(RoundNearestEven(0, DigitsToBig(cs, 1, <<>>), 0, FALSE),
       RoundNearestEven(0, BPow10(FractionDigits(cs)), 0, FALSE))

Trim(cs) ==
  IF \A n \in 1..Len(cs) : IsSpace(cs[n]) THEN <<>>
  ELSE SubSeq(cs, CHOOSE i \in 1..Len(cs) : ~IsSpace(cs[i]) /\ \A n \in 1..(i - 1) : IsSpace(cs[n]),
                  CHOOSE j \in 1..Len(cs) : ~IsSpace(cs[j]) /\ \A n \in (j + 1)..Len(cs) : IsSpace(cs[n]))

InfinityLiteral == <<"I", "n", "f", "i", "n", "i", "t", "y">>

\* Number(string): a signed decimal literal or Infinity, white space trimmed, the
\* empty string 0, anything else NaN (the inputs carry no exponent or radix prefix)
Magnitude(body) ==
  IF body = InfinityLiteral THEN Inf(0)
  ELSE IF IsDecimal(body, 1, Len(body)) THEN DecimalValue(body)
  ELSE NaN

Negated(negative, mag) == IF negative THEN FNeg(mag) ELSE mag

Trimmed(t) ==
  IF t = <<>> THEN Zero
  ELSE Negated(t[1] = "-",
               Magnitude(IF t[1] \in {"+", "-"} THEN SubSeq(t, 2, Len(t)) ELSE t))

StringToNumber(cs) == Trimmed(Trim(cs))

\* whether Number(v) throws: a Symbol has no number value
NumberThrows(v) == v.t = "symbol"

\* Number(v) where it does not throw
Number(v) ==
  CASE v.t = "number" -> v.n
    [] v.t = "string" -> StringToNumber(v.s)
    [] v.t = "undefined" -> NaN
    [] v.t = "null" -> Zero
    [] v.t = "boolean" -> (IF v.v THEN One ELSE Zero)
    [] v.t = "object" -> NaN

\* the property `name` of object o (a function from its own property names)
Get(o, name) == IF name \in DOMAIN o THEN o[name] ELSE Undefined

\* a destructuring default: `name = dflt`
GetOr(o, name, dflt) == IF Get(o, name) = Undefined THEN dflt ELSE Get(o, name)

\* a template literal: its pieces in order, the text between the substitutions as
\* strings and the numbers substituted as numbers
Template(pieces) == [t |-> "template", pieces |-> pieces]

(***************************************************************************)
(* Helpers shared by the plugin bundles.                                   *)
(***************************************************************************)
ALPHA_PRECISION == 3

isPresent(value) ==
  IF value.t = "string" THEN Len(value.s) > 0
  ELSE IF value.t = "number" THEN TRUE
  ELSE FALSE

RECURSIVE Pow10(_)
Pow10(digits) == IF digits = 0 THEN 1 ELSE 10 * Pow10(digits - 1)

\* Math.round(base * number) / base + 0
roundBase(number, base) == FAdd(FDiv(MathRound(FMul(base, number)), base), Zero)

\* round(number, digits), base = Math.pow(10, digits)
round(number, digits) == roundBase(number, FromInt(Pow10(digits)))

\* clamp(number, min, max): NaN goes to min
clamp(number, min, max) ==
  IF FGt(number, max) THEN max ELSE IF FGt(number, min) THEN number ELSE min

(***************************************************************************)
(* CMYK                                                                    *)
(***************************************************************************)
clampCmyka(cmyka) ==
  [f \in {"c", "m", "y", "k", "a"} |->
     clamp(cmyka[f], Zero, IF f = "a" THEN One ELSE F100)]

roundCmyka(cmyka, digits) ==
  [f \in {"c", "m", "y", "k", "a"} |->
     round(cmyka[f],
           IF f = "a" /\ ALPHA_PRECISION > digits THEN ALPHA_PRECISION ELSE digits)]

\* a conversion that leaves the key out: round(255 * (1 - c / 100)), and so for m and y
cmykaToRgbaNoKey(cmyka) ==
  [ch \in {"r", "g", "b", "a"} |->
     IF ch = "a" THEN cmyka.a
     ELSE round(FMul(F255, FSub(One, FDiv(cmyka[[r |-> "c", g |-> "m", b |-> "y"][ch]],
                                          F100))), 0)]

\* round(255 * (1 - c / 100) * (1 - k / 100)), and so for m and y
cmykaToRgba(cmyka) ==
  [ch \in {"r", "g", "b", "a"} |->
     IF ch = "a" THEN cmyka.a
     ELSE round(FMul(FMul(F255, FSub(One, FDiv(cmyka[[r |-> "c", g |-> "m", b |-> "y"][ch]],
                                                 F100))),
                     FSub(One, FDiv(cmyka.k, F100))), 0)]

\* k = 1 - max(r, g, b) / 255, c = (1 - r / 255 - k) / (1 - k) and so for m and y:
\* isNaN(c) ? 0 : round(c * 100), and k: round(k * 100)
Ink(f, share) == IF f # "k" /\ IsNaN(share) THEN Zero ELSE round(FMul(share, F100), 0)

Inks(a, of, k) ==
  [f \in {"c", "m", "y", "k", "a"} |->
     IF f = "a" THEN a
     ELSE Ink(f, IF f = "k" THEN k
                 ELSE FDiv(FSub(FSub(One, of[f]), k), FSub(One, k)))]

Key(a, of) == Inks(a, of, FSub(One, MathMax(of.c, of.m, of.y)))

rgbaToCmyka(rgba) ==
  Key(rgba.a, [f \in {"c", "m", "y"} |->
                 FDiv(rgba[[c |-> "r", m |-> "g", y |-> "b"][f]], F255)])

parseCmyka(o) ==
  IF \E f \in {"c", "m", "y", "k"} : ~isPresent(Get(o, f)) THEN JsNull
  ELSE IF NumberThrows(GetOr(o, "a", Num(One))) THEN TypeError
  ELSE cmykaToRgba(clampCmyka(
         [f \in {"c", "m", "y", "k", "a"} |->
            Number(IF f = "a" THEN GetOr(o, "a", Num(One)) ELSE Get(o, f))]))

(***************************************************************************)
(* The regular expressions of the string parsers.  A position is an index  *)
(* into the input; 0 stands for "no match from here".                      *)
(***************************************************************************)
UpperCase == <<"A", "B", "C", "D", "E", "F", "G", "H", "I", "J", "K", "L", "M",
               "N", "O", "P", "Q", "R", "S", "T", "U", "V", "W", "X", "Y", "Z">>
LowerCase == <<"a", "b", "c", "d", "e", "f", "g", "h", "i", "j", "k", "l", "m",
               "n", "o", "p", "q", "r", "s", "t", "u", "v", "w", "x", "y", "z">>

\* the /i flag: letters compare without case
Fold(c) ==
  IF \E i \in 1..26 : UpperCase[i] = c
  THEN LowerCase[CHOOSE i \in 1..26 : UpperCase[i] = c]
  ELSE c

\* the position after the literal lit at position i
Lit(s, i, lit) ==
  IF i = 0 \/ i + Len(lit) - 1 > Len(s) THEN 0
  ELSE IF \A n \in 1..Len(lit) : Fold(s[i + n - 1]) = lit[n] THEN i + Len(lit) ELSE 0

\* \s* from position i: the position of the first character that is not white space
RECURSIVE SkipSpace(_, _)
SkipSpace(s, i) ==
  IF i = 0 THEN 0
  ELSE IF i <= Len(s) /\ IsSpace(s[i]) THEN SkipSpace(s, i + 1) ELSE i

\* \s+ from position i
SomeSpace(s, i) == IF i = 0 \/ SkipSpace(s, i) = i THEN 0 ELSE SkipSpace(s, i)

RECURSIVE RunEnd(_, _)
RunEnd(s, i) ==
  IF i <= Len(s) /\ (IsDigit(s[i]) \/ s[i] = ".") THEN RunEnd(s, i + 1) ELSE i

\* ([+-]?\d*\.?\d+) from position i.  What may follow the group in the three
\* expressions is never a digit or a point, so the group is the whole run of digits
\* and points after the sign, or there is no match.
NumberEnd(s, i) ==
  IF i = 0 \/ i > Len(s) THEN 0
  ELSE LET from == IF s[i] \in {"+", "-"} THEN i + 1 ELSE i
           to == RunEnd(s, from)
       IN  IF /\ to > from
              /\ IsDigit(s[to - 1])
              /\ Cardinality({n \in from..(to - 1) : s[n] = "."}) <= 1
           THEN to ELSE 0

\* (%)? from position i
PercentEnd(s, i) == IF i = 0 THEN 0 ELSE IF i <= Len(s) /\ s[i] = "%" THEN i + 1 ELSE i

Capture(s, from, to) == IF to > from THEN Str(SubSeq(s, from, to - 1)) ELSE Undefined

\* (?:\/\s*([+-]?\d*\.?\d+)(%)?\s*)?\)$ from position i: the two groups, or null
AlphaTail(s, i) ==
  IF i = 0 \/ i > Len(s) THEN JsNull
  ELSE IF s[i] = "/"
  THEN LET n == SkipSpace(s, i + 1)
           e == NumberEnd(s, n)
           p == PercentEnd(s, e)
           close == SkipSpace(s, p)
       IN  IF close # 0 /\ close = Len(s) /\ s[close] = ")"
           THEN <<Capture(s, n, e), Capture(s, e, p)>>
           ELSE JsNull
  ELSE IF i = Len(s) /\ s[i] = ")" THEN <<Undefined, Undefined>>
  ELSE JsNull

\* /^device-cmyk\(\s*N(%)?\s+N(%)?\s+N(%)?\s+N(%)?\s*(?:\/\s*N(%)?\s*)?\)$/i
cmykMatcher(input) ==
  LET c0 == SkipSpace(input, Lit(input, 1, <<"d", "e", "v", "i", "c", "e", "-", "c", "m", "y", "k", "(">>))
      c1 == NumberEnd(input, c0)
      c2 == PercentEnd(input, c1)
      m0 == SomeSpace(input, c2)
      m1 == NumberEnd(input, m0)
      m2 == PercentEnd(input, m1)
      y0 == SomeSpace(input, m2)
      y1 == NumberEnd(input, y0)
      y2 == PercentEnd(input, y1)
      k0 == SomeSpace(input, y2)
      k1 == NumberEnd(input, k0)
      k2 == PercentEnd(input, k1)
      tail == AlphaTail(input, SkipSpace(input, k2))
  IN  IF tail = JsNull THEN JsNull
      ELSE <<Capture(input, c0, c1), Capture(input, c1, c2),
             Capture(input, m0, m1), Capture(input, m1, m2),
             Capture(input, y0, y1), Capture(input, y1, y2),
             Capture(input, k0, k1), Capture(input, k1, k2)>> \o tail

\* a scaling that takes c, m, y and k the way it takes the alpha
ScaleAlike(f, number, percent) == FDiv(number, IF percent # Undefined THEN F100 ELSE One)

\* c: Number(match[1]) * (match[2] ? 1 : 100), and so for m, y and k;
\* a: match[9] === undefined ? 1 : Number(match[9]) / (match[10] ? 100 : 1)
Scale(f, number, percent) ==
  IF f = "a" THEN FDiv(number, IF percent # Undefined THEN F100 ELSE One)
  ELSE FMul(number, IF percent # Undefined THEN One ELSE F100)

MatchedCmyka(match) ==
  IF match = JsNull THEN JsNull
  ELSE cmykaToRgba(clampCmyka(
         [f \in {"c", "m", "y", "k", "a"} |->
            IF f = "a" /\ match[9] = Undefined THEN One
            ELSE Scale(f, Number(match[[c |-> 1, m |-> 3, y |-> 5, k |-> 7, a |-> 9][f]]),
                       match[[c |-> 2, m |-> 4, y |-> 6, k |-> 8, a |-> 10][f]])]))

parseCmykaString(input) == MatchedCmyka(cmykMatcher(input))

\* a < 1 ? `device-cmyk(${c}% ${m}% ${y}% ${k}% / ${a})`
\*       : `device-cmyk(${c}% ${m}% ${y}% ${k}%)`
CmykaString(cmyka, alpha) ==
  Template(<<Str(<<"d", "e", "v", "i", "c", "e", "-", "c", "m", "y", "k", "(">>),
             Num(cmyka.c), Str(<<"%", " ">>), Num(cmyka.m), Str(<<"%", " ">>),
             Num(cmyka.y), Str(<<"%", " ">>), Num(cmyka.k)>>
           \o (IF alpha THEN <<Str(<<"%", " ", "/", " ">>), Num(cmyka.a), Str(<<")">>)>>
               ELSE <<Str(<<"%", ")">>)>>))

\* a formatter that tests the alpha of the colour, not the rounded one
rgbaToCmykaStringUnrounded(rgb, digits) ==
  CmykaString(roundCmyka(rgbaToCmyka(rgb), digits), FLt(rgb.a, One))

Formatted(cmyka) == CmykaString(cmyka, FLt(cmyka.a, One))

rgbaToCmykaString(rgb, digits) == Formatted(roundCmyka(rgbaToCmyka(rgb), digits))

(***************************************************************************)
(* HWB                                                                     *)
(***************************************************************************)
MathPI == DecimalValue(<<"3", ".", "1", "4", "1", "5", "9", "2", "6", "5", "3", "5", "8", "9", "7", "9", "3">>)

\* ANGLE_UNITS[unit] || 1
ANGLE_UNITS(unit) ==
  IF unit = Str(<<"g", "r", "a", "d">>) THEN FDiv(F360, FromInt(400))
  ELSE IF unit = Str(<<"t", "u", "r", "n">>) THEN F360
  ELSE IF unit = Str(<<"r", "a", "d">>) THEN FDiv(F360, FMul(MathPI, FromInt(2)))
  ELSE One

\* degrees > 0 ? degrees : degrees + 360
Positive(degrees) == IF FGt(degrees, Zero) THEN degrees ELSE FAdd(degrees, F360)

clampHue(degrees) == Positive(IF IsFinite(degrees) THEN FMod(degrees, F360) ELSE Zero)

\* parseHue(value, unit = "deg")
parseHue(value, unit) ==
  FMul(Number(value), ANGLE_UNITS(IF unit = Undefined THEN Str(<<"d", "e", "g">>) ELSE unit))

\* hh: the place of the hue among the six sextants
Sextant(rgba, max, delta) ==
  IF ~IsZero(delta) /\ ~IsNaN(delta)
  THEN IF FEq(max, rgba.r) THEN FDiv(FSub(rgba.g, rgba.b), delta)
       ELSE IF FEq(max, rgba.g) THEN FAdd(FromInt(2), FDiv(FSub(rgba.b, rgba.r), delta))
       ELSE FAdd(FromInt(4), FDiv(FSub(rgba.r, rgba.g), delta))
  ELSE Zero

\* 60 * (hh < 0 ? hh + 6 : hh)
Hue(hh) == FMul(FromInt(60), IF FLt(hh, Zero) THEN FAdd(hh, FromInt(6)) ELSE hh)

Hsva(rgba, max, delta) ==
  [h |-> Hue(Sextant(rgba, max, delta)),
   s |-> IF ~IsZero(max) /\ ~IsNaN(max) THEN FMul(FDiv(delta, max), F100) ELSE Zero,
   v |-> FMul(FDiv(max, F255), F100),
   a |-> rgba.a]

Range(rgba, max) == Hsva(rgba, max, FSub(max, MathMin(rgba.r, rgba.g, rgba.b)))

rgbaToHsva(rgba) == Range(rgba, MathMax(rgba.r, rgba.g, rgba.b))

\* list[module] * 255: a number that is no index of the list selects undefined
Select(list, module) ==
  IF \E i \in 0..5 : FEq(module, FromInt(i))
  THEN FMul(list[(CHOOSE i \in 0..5 : FEq(module, FromInt(i))) + 1], F255)
  ELSE NaN

Selected(a, lists, module) ==
  [ch \in {"r", "g", "b", "a"} |-> IF ch = "a" THEN a ELSE Select(lists[ch], module)]

\* [v, c, b, b, d, v], [d, v, v, c, b, b] and [b, b, d, v, v, c]
Lists(v, b, c, d) ==
  [r |-> <<v, c, b, b, d, v>>, g |-> <<d, v, v, c, b, b>>, b |-> <<b, b, d, v, v, c>>]

\* b = v * (1 - s), c = v * (1 - (h - hh) * s), d = v * (1 - (1 - h + hh) * s),
\* module = hh % 6
Mixed(a, h, s, v, hh) ==
  Selected(a,
           Lists(v,
                 FMul(v, FSub(One, s)),
                 FMul(v, FSub(One, FMul(FSub(h, hh), s))),
                 FMul(v, FSub(One, FMul(FAdd(FSub(One, h), hh), s)))),
           FMod(hh, FromInt(6)))

\* hh = Math.floor(h)
Sector(a, h, s, v) == Mixed(a, h, s, v, MathFloor(h))

\* h = (h / 360) * 6, s = s / 100, v = v / 100
hsvaToRgba(hsva) ==
  Sector(hsva.a, FMul(FDiv(hsva.h, F360), FromInt(6)), FDiv(hsva.s, F100),
         FDiv(hsva.v, F100))

clampHwba(hwba) ==
  [f \in {"h", "w", "b", "a"} |->
     IF f = "h" THEN clampHue(hwba.h)
     ELSE clamp(hwba[f], Zero, IF f = "a" THEN One ELSE F100)]

roundHwba(hwba, digits) ==
  [f \in {"h", "w", "b", "a"} |->
     round(hwba[f],
           IF f = "a" /\ ALPHA_PRECISION > digits THEN ALPHA_PRECISION ELSE digits)]

\* a conversion that takes whiteness from the largest and blackness from the
\* smallest channel
rgbaToHwbaSwapped(rgba) ==
  [h |-> rgbaToHsva(rgba).h,
   w |-> FMul(FDiv(MathMax(rgba.r, rgba.g, rgba.b), F255), F100),
   b |-> FSub(F100, FMul(FDiv(MathMin(rgba.r, rgba.g, rgba.b), F255), F100)),
   a |-> rgba.a]

rgbaToHwba(rgba) ==
  [h |-> rgbaToHsva(rgba).h,
   w |-> FMul(FDiv(MathMin(rgba.r, rgba.g, rgba.b), F255), F100),
   b |-> FSub(F100, FMul(FDiv(MathMax(rgba.r, rgba.g, rgba.b), F255), F100)),
   a |-> rgba.a]

\* a conversion without the test for blackness 100
hwbaToRgbaDivides(hwba) ==
  hsvaToRgba([h |-> hwba.h,
              s |-> FSub(F100, FMul(FDiv(hwba.w, FSub(F100, hwba.b)), F100)),
              v |-> FSub(F100, hwba.b),
              a |-> hwba.a])

hwbaToRgba(hwba) ==
  hsvaToRgba([h |-> hwba.h,
              s |-> IF FEq(hwba.b, F100) THEN Zero
                    ELSE FSub(F100, FMul(FDiv(hwba.w, FSub(F100, hwba.b)), F100)),
              v |-> FSub(F100, hwba.b),
              a |-> hwba.a])

parseHwba(o) ==
  IF \E f \in {"h", "w", "b"} : ~isPresent(Get(o, f)) THEN JsNull
  ELSE IF NumberThrows(GetOr(o, "a", Num(One))) THEN TypeError
  ELSE hwbaToRgba(clampHwba(
         [f \in {"h", "w", "b", "a"} |->
            Number(IF f = "a" THEN GetOr(o, "a", Num(One)) ELSE Get(o, f))]))

\* (deg|rad|grad|turn)? from position i
UnitEnd(s, i) ==
  IF Lit(s, i, <<"d", "e", "g">>) # 0 THEN Lit(s, i, <<"d", "e", "g">>)
  ELSE IF Lit(s, i, <<"r", "a", "d">>) # 0 THEN Lit(s, i, <<"r", "a", "d">>)
  ELSE IF Lit(s, i, <<"g", "r", "a", "d">>) # 0 THEN Lit(s, i, <<"g", "r", "a", "d">>)
  ELSE IF Lit(s, i, <<"t", "u", "r", "n">>) # 0 THEN Lit(s, i, <<"t", "u", "r", "n">>)
  ELSE i

\* a mandatory % at position i
Percent(s, i) == IF i # 0 /\ i <= Len(s) /\ s[i] = "%" THEN i + 1 ELSE 0

\* /^hwb\(\s*N(deg|rad|grad|turn)?\s+N%\s+N%\s*(?:\/\s*N(%)?\s*)?\)$/i
hwbaMatcher(input) ==
  LET h0 == SkipSpace(input, Lit(input, 1, <<"h", "w", "b", "(">>))
      h1 == NumberEnd(input, h0)
      h2 == UnitEnd(input, h1)
      w0 == SomeSpace(input, h2)
      w1 == NumberEnd(input, w0)
      b0 == SomeSpace(input, Percent(input, w1))
      b1 == NumberEnd(input, b0)
      tail == AlphaTail(input, SkipSpace(input, Percent(input, b1)))
  IN  IF tail = JsNull THEN JsNull
      ELSE <<Capture(input, h0, h1), Capture(input, h1, h2),
             Capture(input, w0, w1), Capture(input, b0, b1)>> \o tail

\* the alpha of a string: match[5] === undefined ? 1 : Number(match[5]) / (match[6] ? 100 : 1)
\* an alpha that is taken as a fraction whether it has a % or not
AlphaValueBare(value, percent) == IF value = Undefined THEN One ELSE Number(value)

AlphaValue(value, percent) ==
  IF value = Undefined THEN One
  ELSE FDiv(Number(value), IF percent # Undefined THEN F100 ELSE One)

MatchedHwba(match) ==
  IF match = JsNull THEN JsNull
  ELSE hwbaToRgba(clampHwba(
         [f \in {"h", "w", "b", "a"} |->
            IF f = "h" THEN parseHue(match[1], match[2])
            ELSE IF f = "a" THEN AlphaValue(match[5], match[6])
            ELSE Number(match[IF f = "w" THEN 3 ELSE 4])]))

parseHwbaString(input) == MatchedHwba(hwbaMatcher(input))

\* a < 1 ? `hwb(${h} ${w}% ${b}% / ${a})` : `hwb(${h} ${w}% ${b}%)`
HwbaString(hwba) ==
  Template(<<Str(<<"h", "w", "b", "(">>), Num(hwba.h), Str(<<" ">>), Num(hwba.w),
             Str(<<"%", " ">>), Num(hwba.b)>>
           \o (IF FLt(hwba.a, One)
               THEN <<Str(<<"%", " ", "/", " ">>), Num(hwba.a), Str(<<")">>)>>
               ELSE <<Str(<<"%", ")">>)>>))

rgbaToHwbaString(rgba, digits) == HwbaString(roundHwba(rgbaToHwba(rgba), digits))

(***************************************************************************)
(* XYZ, LAB and LCH                                                        *)
(***************************************************************************)
\* the number written n / 10^scale as a decimal literal
Dec(n, scale) == FDiv(FromInt(n), FromInt(10^scale))

clampRgba(rgba) ==
  [r |-> clamp(rgba.r, Zero, F255),
   g |-> clamp(rgba.g, Zero, F255),
   b |-> clamp(rgba.b, Zero, F255),
   a |-> clamp(rgba.a, Zero, One)]

\* the literals of linearizeRgbChannel and unlinearizeRgbChannel
\* 0.04045, 12.92, 0.055, 1.055, 2.4, 0.0031308 and 1 / 2.4
Companding ==
  [limit |-> Dec(4045, 5), slope |-> Dec(1292, 2), offset |-> Dec(55, 3),
   scale |-> Dec(1055, 3), gamma |-> Dec(24, 1), linear |-> Dec(31308, 7),
   inverse |-> FDiv(One, Dec(24, 1))]

\* ratio < 0.04045 ? ratio / 12.92 : Math.pow((ratio + 0.055) / 1.055, 2.4)
Linear(ratio, c) ==
  IF FLt(ratio, c.limit) THEN FDiv(ratio, c.slope)
  ELSE MathPow(FDiv(FAdd(ratio, c.offset), c.scale), c.gamma)

linearizeRgbChannel(value) == Linear(FDiv(value, F255), Companding)

\* ratio > 0.0031308 ? 1.055 * Math.pow(ratio, 1 / 2.4) - 0.055 : 12.92 * ratio
Gamma(ratio, c) ==
  IF FGt(ratio, c.linear)
  THEN FSub(FMul(c.scale, MathPow(ratio, c.inverse)), c.offset)
  ELSE FMul(c.slope, ratio)

unlinearizeRgbChannel(ratio) == FMul(Gamma(ratio, Companding), F255)

\* x: 96.422, y: 100, z: 82.521
D50 == [x |-> Dec(96422, 3), y |-> Dec(100000, 3), z |-> Dec(82521, 3)]

clampXyza(xyza) ==
  [x |-> clamp(xyza.x, Zero, D50.x),
   y |-> clamp(xyza.y, Zero, D50.y),
   z |-> clamp(xyza.z, Zero, D50.z),
   a |-> clamp(xyza.a, Zero, One)]

\* The coefficients of the four linear maps, a row for each result, written
\* without their decimal point.  A term that the code subtracts, c * v, is the
\* term (-c) * v added: the same number.
Bradford ==
  LET Cols(row, scale) ==
        <<Dec(row[1], scale), Dec(row[2], scale), Dec(row[3], scale)>>
      Rows(m, scale) == <<Cols(m[1], scale), Cols(m[2], scale), Cols(m[3], scale)>>
      lit == [toD50 |-> <<<<10478112, 228866, -501270>>,
                          <<295424, 9904844, -170491>>,
                          <<-92345, 150436, 7521316>>>>,
              toD65 |-> <<<<9555766, -230393, 631636>>,
                          <<-282895, 10099416, 210077>>,
                          <<122982, -204830, 13299098>>>>,
              toRgb |-> <<<<32404542, -15371385, -4985314>>,
                          <<-9692660, 18760108, 415560>>,
                          <<556434, -2040259, 10572252>>>>,
              toXyz |-> <<<<4124564, 3575761, 1804375>>,
                          <<2126729, 7151522, 721750>>,
                          <<193339, 1191920, 9503041>>>>]
  IN  [toD50 |-> Rows(lit.toD50, 7), toD65 |-> Rows(lit.toD65, 7),
       toRgb |-> Rows(lit.toRgb, 9), toXyz |-> Rows(lit.toXyz, 7)]

\* x * row[1] + y * row[2] + z * row[3]
Row(xyz, row) ==
  FAdd(FAdd(FMul(xyz.x, row[1]), FMul(xyz.y, row[2])), FMul(xyz.z, row[3]))

\* the three rows of a linear map applied to xyz
Transform(matrix, xyz) ==
  [x |-> Row(xyz, matrix[1]), y |-> Row(xyz, matrix[2]), z |-> Row(xyz, matrix[3])]

adaptXyzaToD50(xyza) ==
  LET With(t) == [x |-> t.x, y |-> t.y, z |-> t.z, a |-> xyza.a]
  IN  With(Transform(Bradford.toD50, xyza))

adaptXyzToD65(xyza) == Transform(Bradford.toD65, xyza)

\* the channels t of linear light as r, g and b
Unlinearized(a, t) ==
  [r |-> unlinearizeRgbChannel(t.x),
   g |-> unlinearizeRgbChannel(t.y),
   b |-> unlinearizeRgbChannel(t.z),
   a |-> a]

\* a conversion that reads alpha from the adapted colour, which has none
xyzaToRgbaOfAdapted(sourceXyza) ==
  The({clampRgba(Unlinearized(NaN, t)) :
         t \in {Transform(Bradford.toRgb, adaptXyzToD65(sourceXyza))}})

xyzaToRgba(sourceXyza) ==
  The({clampRgba(Unlinearized(sourceXyza.a, t)) :
         t \in {Transform(Bradford.toRgb, adaptXyzToD65(sourceXyza))}})

\* x, y and z times 100
Hundredfold(a, t) ==
  [x |-> FMul(t.x, F100), y |-> FMul(t.y, F100), z |-> FMul(t.z, F100), a |-> a]

\* the linear light sRed, sGreen and sBlue as x, y and z of the D65 white, adapted
\* to D50 and clamped
LinearToXyza(light) ==
  clampXyza(adaptXyzaToD50(Hundredfold(light.a, Transform(Bradford.toXyz, light))))

rgbaToXyza(rgba) ==
  The({LinearToXyza(light) :
         light \in {[x |-> linearizeRgbChannel(rgba.r),
                     y |-> linearizeRgbChannel(rgba.g),
                     z |-> linearizeRgbChannel(rgba.b),
                     a |-> rgba.a]}})

\* const e = 216 / 24389 and const k = 24389 / 27
LabE == FDiv(FromInt(216), FromInt(24389))
LabK == FDiv(FromInt(24389), FromInt(27))

clampLaba(laba) ==
  [f \in {"l", "a", "b", "alpha"} |->
     IF f \in {"a", "b"} THEN laba[f]
     ELSE clamp(laba[f], Zero, IF f = "l" THEN FromInt(400) ELSE One)]

roundLaba(laba, digits) ==
  [f \in {"l", "a", "b", "alpha"} |->
     round(laba[f],
           IF f = "alpha" /\ ALPHA_PRECISION > digits THEN ALPHA_PRECISION ELSE digits)]

\* x > e ? Math.cbrt(x) : (k * x + 16) / 116
LabF(x) ==
  IF FGt(x, LabE) THEN MathCbrt(x)
  ELSE FDiv(FAdd(FMul(LabK, x), FromInt(16)), FromInt(116))

\* l: 116 * y - 16, a: 500 * (x - y), b: 200 * (y - z)
Laba(f, alpha) ==
  [l |-> FSub(FMul(FromInt(116), f.y), FromInt(16)),
   a |-> FMul(FromInt(500), FSub(f.x, f.y)),
   b |-> FMul(FromInt(200), FSub(f.y, f.z)),
   alpha |-> alpha]

\* x = xyza.x / D50.x and so for y and z, each through LabF
Scaled50(xyza, d50) ==
  Laba([x |-> LabF(FDiv(xyza.x, d50.x)),
        y |-> LabF(FDiv(xyza.y, d50.y)),
        z |-> LabF(FDiv(xyza.z, d50.z))], xyza.a)

rgbaToLaba(rgba) == The({Scaled50(xyza, D50) : xyza \in {rgbaToXyza(rgba)}})

\* Math.pow(x, 3) > e ? Math.pow(x, 3) : (116 * x - 16) / k
Cube(x, cube) ==
  IF FGt(cube, LabE) THEN cube
  ELSE FDiv(FSub(FMul(FromInt(116), x), FromInt(16)), LabK)

\* an inverse that cubes on both sides of the threshold
LabInverseCube(x) == MathPow(x, FromInt(3))

LabInverse(x) == Cube(x, MathPow(x, FromInt(3)))

\* x: (Math.pow(x, 3) > e ? Math.pow(x, 3) : (116 * x - 16) / k) * D50.x,
\* y: (laba.l > k * e ? Math.pow((laba.l + 16) / 116, 3) : laba.l / k) * D50.y,
\* z: (Math.pow(z, 3) > e ? Math.pow(z, 3) : (116 * z - 16) / k) * D50.z
Inverse(laba, x, y, z, d50) ==
  [x |-> FMul(LabInverse(x), d50.x),
   y |-> FMul(IF FGt(laba.l, FMul(LabK, LabE)) THEN MathPow(y, FromInt(3))
              ELSE FDiv(laba.l, LabK),
              d50.y),
   z |-> FMul(LabInverse(z), d50.z),
   a |-> laba.alpha]

\* y = (l + 16) / 116, x = a / 500 + y, z = y - b / 200
Lightness(laba, y) ==
  Inverse(laba, FAdd(FDiv(laba.a, FromInt(500)), y), y,
          FSub(y, FDiv(laba.b, FromInt(200))), D50)

labaToRgba(laba) ==
  The({xyzaToRgba(xyza) :
         xyza \in {Lightness(laba, FDiv(FAdd(laba.l, FromInt(16)), FromInt(116)))}})

parseLaba(o) ==
  IF \E f \in {"l", "a", "b"} : ~isPresent(Get(o, f)) THEN JsNull
  ELSE IF NumberThrows(GetOr(o, "alpha", Num(One))) THEN TypeError
  ELSE labaToRgba(clampLaba(
         [f \in {"l", "a", "b", "alpha"} |->
            Number(IF f = "alpha" THEN GetOr(o, "alpha", Num(One)) ELSE Get(o, f))]))

clampLcha(laba) ==
  [l |-> clamp(laba.l, Zero, F100),
   c |-> laba.c,
   h |-> clampHue(laba.h),
   a |-> laba.a]

\* a rounding that gives alpha the digits of the other channels
roundLchaAlike(laba, digits) == [f \in {"l", "c", "h", "a"} |-> round(laba[f], digits)]

roundLcha(laba, digits) ==
  [f \in {"l", "c", "h", "a"} |->
     round(laba[f],
           IF f = "a" /\ ALPHA_PRECISION > digits THEN ALPHA_PRECISION ELSE digits)]

\* a and b rounded to 3 digits, hue = 180 * (Math.atan2(b, a) / Math.PI),
\* c: Math.sqrt(a * a + b * b), h: hue < 0 ? hue + 360 : hue
Turn(hue) == IF FLt(hue, Zero) THEN FAdd(hue, F360) ELSE hue

Polar(laba, r) ==
  [l |-> laba.l,
   c |-> MathSqrt(FAdd(FMul(r.a, r.a), FMul(r.b, r.b))),
   h |-> Turn(FMul(FromInt(180), FDiv(MathAtan2(r.b, r.a), MathPI))),
   a |-> laba.alpha]

Chroma(laba) == Polar(laba, [a |-> round(laba.a, 3), b |-> round(laba.b, 3)])

rgbaToLcha(rgba) == The({Chroma(laba) : laba \in {rgbaToLaba(rgba)}})

\* a: c * Math.cos((h * Math.PI) / 180), b: c * Math.sin((h * Math.PI) / 180)
Rectangular(lcha, angle) ==
  [l |-> lcha.l,
   a |-> FMul(lcha.c, MathCos(angle)),
   b |-> FMul(lcha.c, MathSin(angle)),
   alpha |-> lcha.a]

lchaToRgba(lcha) ==
  The({labaToRgba(laba) :
         laba \in {Rectangular(lcha, FDiv(FMul(lcha.h, MathPI), FromInt(180)))}})

parseLcha(o) ==
  IF \E f \in {"l", "c", "h"} : ~isPresent(Get(o, f)) THEN JsNull
  ELSE IF NumberThrows(GetOr(o, "a", Num(One))) THEN TypeError
  ELSE lchaToRgba(clampLcha(
         [f \in {"l", "c", "h", "a"} |->
            Number(IF f = "a" THEN GetOr(o, "a", Num(One)) ELSE Get(o, f))]))

\* /^lch\(\s*N%\s+N\s+N(deg|rad|grad|turn)?\s*(?:\/\s*N(%)?\s*)?\)$/i
lchaMatcher(input) ==
  LET l0 == SkipSpace(input, Lit(input, 1, <<"l", "c", "h", "(">>))
      l1 == NumberEnd(input, l0)
      c0 == SomeSpace(input, Percent(input, l1))
      c1 == NumberEnd(input, c0)
      h0 == SomeSpace(input, c1)
      h1 == NumberEnd(input, h0)
      h2 == UnitEnd(input, h1)
      tail == AlphaTail(input, SkipSpace(input, h2))
  IN  IF tail = JsNull THEN JsNull
      ELSE <<Capture(input, l0, l1), Capture(input, c0, c1),
             Capture(input, h0, h1), Capture(input, h1, h2)>> \o tail

MatchedLcha(match) ==
  IF match = JsNull THEN JsNull
  ELSE lchaToRgba(clampLcha(
         [f \in {"l", "c", "h", "a"} |->
            IF f = "h" THEN parseHue(match[3], match[4])
            ELSE IF f = "a" THEN AlphaValue(match[5], match[6])
            ELSE Number(match[IF f = "l" THEN 1 ELSE 2])]))

parseLchaString(input) == MatchedLcha(lchaMatcher(input))

\* a < 1 ? `lch(${l}% ${c} ${h} / ${a})` : `lch(${l}% ${c} ${h})`
LchaString(lcha) ==
  Template(<<Str(<<"l", "c", "h", "(">>), Num(lcha.l), Str(<<"%", " ">>), Num(lcha.c),
             Str(<<" ">>), Num(lcha.h)>>
           \o (IF FLt(lcha.a, One) THEN <<Str(<<" ", "/", " ">>), Num(lcha.a), Str(<<")">>)>>
               ELSE <<Str(<<")">>)>>))

LchaStringAt(lcha, digits) == LchaString(roundLcha(lcha, digits))

rgbaToLchaString(rgba, digits) ==
  The({LchaStringAt(lcha, digits) : lcha \in {rgbaToLcha(rgba)}})

\* parseXyza is registered by xyzPlugin; like the other object parsers it needs its
\* three channels and converts what it was given with xyzaToRgba(clampXyza(..))
parseXyza(o) ==
  IF \E f \in {"x", "y", "z"} : ~isPresent(Get(o, f)) THEN JsNull
  ELSE IF NumberThrows(GetOr(o, "a", Num(One))) THEN TypeError
  ELSE xyzaToRgba(clampXyza(
         [f \in {"x", "y", "z", "a"} |->
            Number(IF f = "a" THEN GetOr(o, "a", Num(One)) ELSE Get(o, f))]))

(***************************************************************************)
(* The CIEDE2000 difference of two LAB colours                             *)
(***************************************************************************)
\* Math.exp(x) for a finite x
MathExp(x) == IF x.k # "fin" THEN NaN ELSE ExpOf(x.s, BScale(x.m, x.e + FracBits))

\* Math.abs(x)
MathAbs(x) == IF x.k = "fin" THEN Fin(0, x.m, x.e) ELSE IF x.k = "inf" THEN Inf(0) ELSE x

\* const rad2deg = 180 / Math.PI, const deg2rad = Math.PI / 180
rad2deg == FDiv(FromInt(180), MathPI)
deg2rad == FDiv(MathPI, FromInt(180))

\* (a ** 2 + b ** 2) ** 0.5
Hypot(a, b) ==
  MathPow(FAdd(MathPow(a, FromInt(2)), MathPow(b, FromInt(2))), Dec(5, 1))

\* (x + y) / 2
Mean(x, y) == FDiv(FAdd(x, y), FromInt(2))

\* (c7 / (c7 + 25 ** 7)) ** 0.5
Saturation(c7) ==
  MathPow(FDiv(c7, FAdd(c7, MathPow(FromInt(25), FromInt(7)))), Dec(5, 1))

\* a11 === 0 && b1 === 0 ? 0 : Math.atan2(b1, a11) * rad2deg
HueOf(a, b) == IF IsZero(a) /\ IsZero(b) THEN Zero ELSE FMul(MathAtan2(b, a), rad2deg)

\* a colour with a11 = a1 * (1 + g), its chroma c11 and its hue h1, 360 added to
\* a hue that is negative
Primed(color, g) ==
  The({[l |-> color.l, c |-> Hypot(a, color.b), h |-> Turn(HueOf(a, color.b))] :
         a \in {FMul(color.a, FAdd(One, g))}})

\* a hue difference that adds 360 when h2 <= h1 and never subtracts it
HueDifferenceAdding(h1, h2) ==
  IF FGt(MathAbs(FSub(h2, h1)), FromInt(180)) /\ FLe(h2, h1)
  THEN FAdd(FSub(h2, h1), F360)
  ELSE FSub(h2, h1)

\* dh = h2 - h1, with 360 added or subtracted when they are more than 180 apart
HueDifference(h1, h2) ==
  IF FGt(MathAbs(FSub(h2, h1)), FromInt(180)) /\ FLe(h2, h1)
  THEN FAdd(FSub(h2, h1), F360)
  ELSE IF FGt(MathAbs(FSub(h2, h1)), FromInt(180)) /\ FGt(h2, h1)
  THEN FSub(FSub(h2, h1), F360)
  ELSE FSub(h2, h1)

\* H = h1 + h2, halved, after 360 is added or subtracted when they are more than
\* 180 apart
HueMean(h1, h2) ==
  IF FLe(MathAbs(FSub(h2, h1)), FromInt(180)) THEN FDiv(FAdd(h1, h2), FromInt(2))
  ELSE FDiv(IF FLt(FAdd(h1, h2), F360) THEN FAdd(FAdd(h1, h2), F360)
            ELSE FSub(FAdd(h1, h2), F360),
            FromInt(2))

\* T = 1 - 0.17 cos(deg2rad (H - 30)) + 0.24 cos(deg2rad 2 H)
\*       + 0.32 cos(deg2rad (3 H + 6)) - 0.2 cos(deg2rad (4 H - 63))
Tone(H) ==
  FSub(FAdd(FAdd(FSub(One,
                      FMul(Dec(17, 2), MathCos(FMul(deg2rad, FSub(H, FromInt(30)))))),
                 FMul(Dec(24, 2), MathCos(FMul(FMul(deg2rad, FromInt(2)), H)))),
            FMul(Dec(32, 2),
                 MathCos(FMul(deg2rad, FAdd(FMul(FromInt(3), H), FromInt(6)))))),
       FMul(Dec(2, 1), MathCos(FMul(deg2rad, FSub(FMul(FromInt(4), H), FromInt(63))))))

\* dTheta = 30 * Math.exp(-1 * ((H - 275) / 25) ** 2)
Rotation(H) ==
  FMul(FromInt(30),
       MathExp(FMul(FromInt(-1),
                    MathPow(FDiv(FSub(H, FromInt(275)), FromInt(25)), FromInt(2)))))

\* sL = 1 + (0.015 * (ml - 50) ** 2) / (20 + (ml - 50) ** 2) ** 0.5
Lightening(square) ==
  FAdd(One, FDiv(FMul(Dec(15, 3), square), MathPow(FAdd(FromInt(20), square), Dec(5, 1))))

\* dL, dC and dH, the weights sL, sC and sH, and Rt = -Rc * sin(deg2rad 2 dTheta)
\* with Rc = 2 * sat
Differences(p1, p2, sat, ml, mc1, dh, H) ==
  [dL |-> FSub(p2.l, p1.l),
   dC |-> FSub(p2.c, p1.c),
   dH |-> FMul(FMul(FromInt(2), MathSin(FDiv(FMul(deg2rad, dh), FromInt(2)))),
               MathPow(FMul(p1.c, p2.c), Dec(5, 1))),
   sL |-> Lightening(MathPow(FSub(ml, FromInt(50)), FromInt(2))),
   sC |-> FAdd(One, FMul(Dec(45, 3), mc1)),
   sH |-> FAdd(One, FMul(FMul(Dec(15, 3), mc1), Tone(H))),
   Rt |-> FMul(FNeg(FMul(FromInt(2), sat)),
               MathSin(FMul(FMul(deg2rad, FromInt(2)), Rotation(H))))]

\* ((dL / kl / sL) ** 2 + (dC / kc / sC) ** 2 + (dH / kh / sH) ** 2
\*   + (Rt * dC * dH) / (kc * sC * kh * sH)) ** 0.5, with kl = kc = kh = 1
Combined(d) ==
  MathPow(FAdd(FAdd(FAdd(MathPow(FDiv(d.dL, d.sL), FromInt(2)),
                         MathPow(FDiv(d.dC, d.sC), FromInt(2))),
                    MathPow(FDiv(d.dH, d.sH), FromInt(2))),
               FDiv(FMul(FMul(d.Rt, d.dC), d.dH), FMul(d.sC, d.sH))),
          Dec(5, 1))

Between(p1, p2, sat, ml) ==
  The({Combined(d) :
         d \in {Differences(p1, p2, sat, ml, Mean(p1.c, p2.c),
                            HueDifference(p1.h, p2.h), HueMean(p1.h, p2.h))}})

\* g = 0.5 * (1 - sat)
Adjusted(color1, color2, sat) ==
  The({Between(p[1], p[2], sat, Mean(color1.l, color2.l)) :
         p \in {<<Primed(color1, FMul(Dec(5, 1), FSub(One, sat))),
                  Primed(color2, FMul(Dec(5, 1), FSub(One, sat)))>>}})

\* c7 = mc ** 7, mc the mean of the chromas c1 and c2
getDeltaE00(color1, color2) ==
  The({Adjusted(color1, color2, sat) :
         sat \in {Saturation(MathPow(Mean(Hypot(color1.a, color1.b),
                                          Hypot(color2.a, color2.b)), FromInt(7)))}})

\* this.toLab(): toLab(digits = 2) of a handle whose colour is rgb
Lab2(rgb) == The({roundLaba(laba, 2) : laba \in {rgbaToLaba(rgb)}})

\* round(delta, 3), not clamped
Normal3Unclamped(e00) == round(FDiv(e00, F100), 3)

\* clamp(round(delta, 3)) for delta = getDeltaE00(..) / 100
Normal3(e00) == clamp(round(FDiv(e00, F100), 3), Zero, One)

\* ColordClass.prototype.delta, this.rgba being rgb1 and the colour of compared rgb2
delta(rgb1, rgb2) ==
  The({Normal3(e00) :
         e00 \in {The({getDeltaE00(labs[1], labs[2]) :
                         labs \in {<<Lab2(rgb1), Lab2(rgb2)>>}})}})

(***************************************************************************)
(* Mixing two colours in LAB, and the palettes of the mix plugin           *)
(***************************************************************************)
\* laba1.l * (1 - ratio) + laba2.l * ratio, and so for a, b and alpha
Blend(laba1, laba2, ratio) ==
  [f \in {"l", "a", "b", "alpha"} |->
     FAdd(FMul(laba1[f], FSub(One, ratio)), FMul(laba2[f], ratio))]

\* laba1 and laba2 are the first and the second of labas
mix(rgba1, rgba2, ratio) ==
  The({labaToRgba(clampLaba(Blend(labas[1], labas[2], ratio))) :
         labas \in {SubSeq([n \in 1..2 |-> rgbaToLaba(<<rgba1, rgba2>>[n])], 1, 2)}})

\* the palette after the loop: entry i + 1 is what source.mix(hex, step * i) was
\* given as the mixture, with the ratio step * i it was called with; source and
\* hex are the colours of the two handles
Looped(source, hex, step, count) ==
  [n \in 1..count |->
     The({[ratio |-> ratio, colour |-> mix(source, hex, ratio)] :
            ratio \in {FMul(step, FromInt(n - 1))}})]

\* const step = 1 / (count - 1)
mixPalette(source, hex, count) ==
  Looped(source, hex, FDiv(One, FromInt(count - 1)), count)

(***************************************************************************)
(* Accessibility: luminance and contrast                                   *)
(***************************************************************************)
\* Math.floor(base * number) / base + 0, base = Math.pow(10, digits)
floor(number, digits) ==
  FAdd(FDiv(MathFloor(FMul(FromInt(Pow10(digits)), number)), FromInt(Pow10(digits))), Zero)

\* 0.2126 * sRed + 0.7152 * sGreen + 0.0722 * sBlue
Weighted(sRed, sGreen, sBlue) ==
  FAdd(FAdd(FMul(Dec(2126, 4), sRed), FMul(Dec(7152, 4), sGreen)), FMul(Dec(722, 4), sBlue))

getLuminance(rgba) ==
  Weighted(linearizeRgbChannel(rgba.r), linearizeRgbChannel(rgba.g),
           linearizeRgbChannel(rgba.b))

\* a ratio that always divides the first luminance by the second
Unordered(l1, l2) == FDiv(FAdd(l1, Dec(5, 2)), FAdd(l2, Dec(5, 2)))

\* l1 > l2 ? (l1 + 0.05) / (l2 + 0.05) : (l2 + 0.05) / (l1 + 0.05)
Ordered(l1, l2) ==
  IF FGt(l1, l2) THEN FDiv(FAdd(l1, Dec(5, 2)), FAdd(l2, Dec(5, 2)))
  ELSE FDiv(FAdd(l2, Dec(5, 2)), FAdd(l1, Dec(5, 2)))

getContrast(rgb1, rgb2) ==
  The({Ordered(l[1], l[2]) : l \in {<<getLuminance(rgb1), getLuminance(rgb2)>>}})

\* the strings "AA", "AAA", "normal" and "large"
AA == Str(<<"A", "A">>)
AAA == Str(<<"A", "A", "A">>)
Normal == Str(<<"n", "o", "r", "m", "a", "l">>)
Large == Str(<<"l", "a", "r", "g", "e">>)

\* a table that asks 7 of every AAA text
MinimalByLevel(level, size) ==
  IF level = AAA THEN FromInt(7)
  ELSE IF level = AA /\ size = Large THEN FromInt(3)
  ELSE Dec(45, 1)

\* level === "AAA" && size === "normal" ? 7 : level === "AA" && size === "large" ? 3 : 4.5
Minimal(level, size) ==
  IF level = AAA /\ size = Normal THEN FromInt(7)
  ELSE IF level = AA /\ size = Large THEN FromInt(3)
  ELSE Dec(45, 1)

\* ({ level = "AA", size = "normal" }) => ...
getMinimalContrast(options) ==
  Minimal(GetOr(options, "level", AA), GetOr(options, "size", Normal))

\* ColordClass.prototype.luminance, this.rgba being rgb1
luminance(rgb1) == round(getLuminance(rgb1), 2)

\* a contrast that is not floored
contrastExact(rgb1, rgb2) == getContrast(rgb1, rgb2)

\* ColordClass.prototype.contrast, this.rgba being rgb1 and what instance2.toRgb()
\* returned rgb2
contrast(rgb1, rgb2) == floor(getContrast(rgb1, rgb2), 2)

\* ColordClass.prototype.isReadable
isReadable(rgb1, rgb2, options) == FGe(contrast(rgb1, rgb2), getMinimalContrast(options))

(***************************************************************************)
(* The state: the parser registry the plugins are handed, the methods the  *)
(* plugins put on ColordClass.prototype, and a colour handle (this.rgba).  *)
(* installed, input, parsed, view and back record what was called last and *)
(* what it returned.                                                       *)
(***************************************************************************)
VARIABLES parsers, proto, installed, input, parsed, rgba, view, back

vars == <<parsers, proto, installed, input, parsed, rgba, view, back>>

\* nothing was called yet
None == [t |-> "none"]

\* an object with the own properties o
Obj(o) == [t |-> "object", o |-> o]

\* a parser function applied to its argument
Call(fn, x) ==
  CASE fn = "parseCmyka" -> parseCmyka(x)
    [] fn = "parseCmykaString" -> parseCmykaString(x)
    [] fn = "parseHwba" -> parseHwba(x)
    [] fn = "parseHwbaString" -> parseHwbaString(x)
    [] fn = "parseLaba" -> parseLaba(x)
    [] fn = "parseLcha" -> parseLcha(x)
    [] fn = "parseLchaString" -> parseLchaString(x)
    [] fn = "parseXyza" -> parseXyza(x)

\* The parsers of list tried in order on x from entry i: the results of the
\* parsers tried so far in tried, the first result that is not null returned with
\* the format name of its parser.  An exception leaves the dispatch.
RECURSIVE findValidColor(_, _, _, _)
findValidColor(x, list, i, tried) ==
  IF i > Len(list) THEN [result |-> JsNull, format |-> Undefined, tried |-> tried]
  ELSE LET Tried(r) ==
             IF r = JsNull THEN findValidColor(x, list, i + 1, Append(tried, r))
             ELSE [result |-> r, format |-> list[i][2], tried |-> Append(tried, r)]
       IN  Tried(Call(list[i][1], x))

\* dispatch: a string goes to the string parsers, an object to the object parsers
parse(x) ==
  IF x.t \in {"string", "object"}
  THEN findValidColor(IF x.t = "string" THEN x.s ELSE x.o, parsers[x.t], 1, <<>>)
  ELSE [result |-> JsNull, format |-> Undefined, tried |-> <<>>]

(***************************************************************************)
(* The registry: plugins are installed, in any order and any number of     *)
(* times, and then an input is dispatched.                                 *)
(***************************************************************************)
MaxInstalls == 3

\* plugin(ColordClass, parsers): the methods it sets and the entries it pushes
Install(name, methods, object, string) ==
  /\ input = None
  /\ Len(installed) < MaxInstalls
  /\ proto' = proto \cup methods
  /\ parsers' = [object |-> parsers.object \o object, string |-> parsers.string \o string]
  /\ installed' = Append(installed, name)
  /\ UNCHANGED <<input, parsed, rgba, view, back>>

\* a plugin that assigns the lists instead of pushing onto them
cmykPluginAssigns ==
  /\ input = None
  /\ Len(installed) < MaxInstalls
  /\ proto' = proto \cup {"toCmyk", "toCmykString"}
  /\ parsers' = [object |-> <<<<"parseCmyka", "cmyk">>>>,
                 string |-> <<<<"parseCmykaString", "cmyk">>>>]
  /\ installed' = Append(installed, "cmyk")
  /\ UNCHANGED <<input, parsed, rgba, view, back>>

cmykPlugin ==
  Install("cmyk", {"toCmyk", "toCmykString"},
          <<<<"parseCmyka", "cmyk">>>>, <<<<"parseCmykaString", "cmyk">>>>)

hwbPlugin ==
  Install("hwb", {"toHwb", "toHwbString"},
          <<<<"parseHwba", "hwb">>>>, <<<<"parseHwbaString", "hwb">>>>)

\* a plugin that puts its parsers in front of the lists (unshift for push)
lchPluginUnshifts ==
  /\ input = None
  /\ Len(installed) < MaxInstalls
  /\ proto' = proto \cup {"toLch", "toLchString"}
  /\ parsers' = [object |-> <<<<"parseLcha", "lch">>>> \o parsers.object,
                 string |-> <<<<"parseLchaString", "lch">>>> \o parsers.string]
  /\ installed' = Append(installed, "lch")
  /\ UNCHANGED <<input, parsed, rgba, view, back>>

lchPlugin ==
  Install("lch", {"toLch", "toLchString"},
          <<<<"parseLcha", "lch">>>>, <<<<"parseLchaString", "lch">>>>)

\* an entry of a list that is not the lab plugin's
NotLab(entry) == entry[2] # "lab"

\* a plugin that takes its parser out of the list before it pushes it, so that
\* installing it again moves the parser to the end
labPluginMoves ==
  /\ input = None
  /\ Len(installed) < MaxInstalls
  /\ proto' = proto \cup {"toLab", "delta"}
  /\ parsers' = [object |-> Append(SelectSeq(parsers.object, NotLab), <<"parseLaba", "lab">>),
                 string |-> parsers.string]
  /\ installed' = Append(installed, "lab")
  /\ UNCHANGED <<input, parsed, rgba, view, back>>

labPlugin == Install("lab", {"toLab", "delta"}, <<<<"parseLaba", "lab">>>>, <<>>)

xyzPlugin == Install("xyz", {"toXyz"}, <<<<"parseXyza", "xyz">>>>, <<>>)

mixPlugin == Install("mix", {"mix", "tints", "shades", "tones"}, <<>>, <<>>)

harmoniesPlugin == Install("harmonies", {"harmonies"}, <<>>, <<>>)

a11yPlugin == Install("a11y", {"luminance", "contrast", "isReadable"}, <<>>, <<>>)

\* strings are written a character at a time
LchString == <<"l", "c", "h", "(", "5", "0", "%", " ", "3", "0", " ", "4", "0", ")">>
HwbString == <<"h", "w", "b", "(", "9", "0", " ", "2", "0", "%", " ", "3", "0", "%", ")">>
CmykString ==
  <<"d", "e", "v", "i", "c", "e", "-", "c", "m", "y", "k", "(",
    "0", "%", " ", "1", "0", "0", "%", " ", "0", "%", " ", "0", "%", ")">>

\* an object both parseLaba and parseLcha accept
LabLchObject ==
  Obj([l |-> Num(FromInt(50)), a |-> Num(FromInt(20)), b |-> Num(FromInt(-30)),
       c |-> Num(FromInt(40)), h |-> Num(FromInt(120))])

\* the inputs dispatched
Inputs ==
  {LabLchObject,
   Obj([c |-> Num(FromInt(10)), m |-> Num(FromInt(20)), y |-> Num(FromInt(30)),
        k |-> Num(FromInt(40))]),
   Obj([h |-> Num(FromInt(200)), w |-> Num(FromInt(10)), b |-> Num(FromInt(20)),
        c |-> Num(FromInt(40)), l |-> Num(FromInt(50))]),
   Obj([r |-> Num(FromInt(1))]),
   Str(LchString), Str(HwbString), Str(CmykString), Str(<<"r", "e", "d">>)}

Parse ==
  /\ input = None
  /\ \E x \in Inputs :
       /\ input' = x
       /\ parsed' = parse(x)
  /\ UNCHANGED <<parsers, proto, installed, rgba, view, back>>

Init ==
  /\ parsers = [object |-> <<>>, string |-> <<>>]
  /\ proto = {}
  /\ installed = <<>>
  /\ input = None
  /\ parsed = None
  /\ rgba = None
  /\ view = None
  /\ back = None

Next ==
  \/ cmykPlugin \/ hwbPlugin \/ lchPlugin \/ labPlugin
  \/ xyzPlugin \/ mixPlugin \/ harmoniesPlugin \/ a11yPlugin
  \/ Parse

Spec == Init /\ [][Next]_vars

(***************************************************************************)
(* The parsers called one at a time on inputs that exercise each branch:   *)
(* channels out of range, NaN, strings that are and are not numbers,       *)
(* channels that are absent (they read undefined) and an alpha that is a   *)
(* Symbol.  input records the call and parsed what it returned.            *)
(***************************************************************************)
N(n) == Num(FromInt(n))
Half == Num(Dec(5, 1))

\* "50", "100", "abc" and the empty string
Text50 == Str(<<"5", "0">>)
Text100 == Str(<<"1", "0", "0">>)
TextAbc == Str(<<"a", "b", "c">>)
Empty == Str(<<>>)

Alphas == {Undefined, Half, N(2), Symbol}

CmykObjects ==
  {[c |-> c, m |-> m, y |-> y, k |-> k, a |-> a] :
     c \in {N(0), N(50), N(100), N(150), TextAbc, Undefined},
     m \in {N(0), N(100), Undefined},
     y \in {N(0), Text50, Num(NaN)},
     k \in {N(0), N(50), N(100), JsNull},
     a \in Alphas}

HwbObjects ==
  {[h |-> h, w |-> w, b |-> b, a |-> a] :
     h \in {N(0), N(120), N(360), N(-30), Num(NaN), Text50},
     w \in {N(0), N(20), N(100), N(150), Text50, Undefined},
     b \in {N(0), N(9), N(100), Text100, N(150), Empty, Bool(TRUE)},
     a \in Alphas}

LabObjects ==
  {[l |-> l, a |-> a, b |-> b, alpha |-> alpha] :
     l \in {N(-10), N(0), N(50), N(100), N(500), TextAbc},
     a \in {N(-160), N(0), N(80), Undefined},
     b \in {N(-160), N(80), Num(NaN)},
     alpha \in Alphas}

LchObjects ==
  {[l |-> l, c |-> c, h |-> h, a |-> a] :
     l \in {N(-10), N(0), N(50), N(150), Undefined},
     c \in {N(0), N(50), N(200), TextAbc},
     h \in {N(0), N(120), N(400), N(-30)},
     a \in Alphas}

\* the end of a functional notation: with and without alpha, and without the )
Tails ==
  {<<")">>, <<" ", "/", " ", "0", ".", "5", ")">>, <<"/", "5", "0", "%", " ", ")">>, <<>>}

\* the strings written with one of opens, a c, an m, a y, one of ks and one of tails
CmykWritten(opens, ks, tails) ==
  {open \o c \o <<" ">> \o m \o <<" ">> \o y \o <<" ">> \o k \o tail :
     open \in opens,
     c \in {<<"0", "%">>, <<"5", "0">>, <<"1", "5", "0", "%">>},
     m \in {<<"1", "0", "0", "%">>, <<"0", ".", "5">>},
     y \in {<<"0", "%">>, <<".", "2">>},
     k \in ks,
     tail \in tails}

CmykOpens ==
  {<<"d", "e", "v", "i", "c", "e", "-", "c", "m", "y", "k", "(">>,
   <<"D", "E", "V", "I", "C", "E", "-", "C", "M", "Y", "K", "(", " ">>}

CmykKeys == {<<"0", "%">>, <<"1", "0", "0", "%">>}

CmykStrings ==
  CmykWritten(CmykOpens \cup {<<"c", "m", "y", "k", "(">>}, CmykKeys \cup {<<"x">>}, Tails)

\* the strings written with one of opens, an h, one of ws, a b and one of tails
HwbWritten(opens, ws, tails) ==
  {open \o h \o <<" ">> \o w \o <<" ">> \o b \o tail :
     open \in opens,
     h \in {<<"9", "0">>, <<"0">>, <<"-", "3", "0", "d", "e", "g">>,
            <<".", "5", "t", "u", "r", "n">>},
     w \in ws,
     b \in {<<"3", "0", "%">>, <<"9", "%">>, <<"1", "0", "0", "%">>},
     tail \in tails}

HwbOpens == {<<"h", "w", "b", "(">>, <<"H", "W", "B", "(", " ">>}

HwbWhites == {<<"2", "0", "%">>, <<"1", "0", "0", "%">>}

HwbStrings ==
  HwbWritten(HwbOpens \cup {<<"h", "s", "l", "(">>}, HwbWhites \cup {<<"5", "0">>}, Tails)

\* the strings written with one of opens, one of ls, a c, an h and one of tails
LchWritten(opens, ls, tails) ==
  {open \o l \o <<" ">> \o c \o <<" ">> \o h \o tail :
     open \in opens,
     l \in ls,
     c \in {<<"3", "0">>, <<"2", "0", "0">>},
     h \in {<<"4", "0">>, <<".", "5", "t", "u", "r", "n">>, <<"-", "3", "0", "d", "e", "g">>},
     tail \in tails}

LchOpens == {<<"l", "c", "h", "(">>, <<"L", "C", "H", "(", " ">>}

LchLights == {<<"5", "0", "%">>, <<"1", "5", "0", "%">>}

LchStrings ==
  LchWritten(LchOpens \cup {<<"l", "a", "b", "(">>}, LchLights \cup {<<"5", "0">>}, Tails)

\* the parser fn was called on x and returned result
Returned(fn, x, result) ==
  /\ input = None
  /\ input' = [t |-> "call", fn |-> fn, x |-> x]
  /\ parsed' = result
  /\ UNCHANGED <<parsers, proto, installed, rgba, view, back>>

CallParseCmyka == \E o \in CmykObjects : Returned("parseCmyka", o, parseCmyka(o))

CallParseCmykaString ==
  \E str \in CmykStrings : Returned("parseCmykaString", str, parseCmykaString(str))

CallParseHwba == \E o \in HwbObjects : Returned("parseHwba", o, parseHwba(o))

CallParseHwbaString ==
  \E str \in HwbStrings : Returned("parseHwbaString", str, parseHwbaString(str))

CallParseLaba == \E o \in LabObjects : Returned("parseLaba", o, parseLaba(o))

CallParseLcha == \E o \in LchObjects : Returned("parseLcha", o, parseLcha(o))

CallParseLchaString ==
  \E str \in LchStrings : Returned("parseLchaString", str, parseLchaString(str))

NextParsers ==
  \/ CallParseCmyka \/ CallParseCmykaString
  \/ CallParseHwba \/ CallParseHwbaString
  \/ CallParseLaba \/ CallParseLcha \/ CallParseLchaString

SpecParsers == Init /\ [][NextParsers]_vars

(***************************************************************************)
(* A colour handle and its views: this.rgba is one of the colours below,   *)
(* toCmyk and toHwb are called on it with a number of digits, and the      *)
(* object a method returned is parsed back.  view records the call, the    *)
(* converter's result and the method's result; back what the parser made   *)
(* of the method's result.                                                 *)
(***************************************************************************)
MaxDark == 1
MaxDrop == 8

\* the darkest levels and the brightest odd levels of a channel
Levels == (0..MaxDark) \cup {255 - 2 * i : i \in 0..MaxDrop}

\* alpha 1 and alpha 0.12345
Opacities == {One, Dec(12345, 5)}

Colours ==
  {[r |-> FromInt(r), g |-> FromInt(g), b |-> FromInt(b), a |-> a] :
     r \in Levels, g \in Levels, b \in Levels, a \in Opacities}

\* toCmyk(digits) and toHwb(digits) are called with no argument (digits = 0) and with 2
Precisions == {0, 2}

\* the cmyk and hwb plugins are installed
InitViews ==
  /\ parsers = [object |-> <<<<"parseCmyka", "cmyk">>, <<"parseHwba", "hwb">>>>,
                string |-> <<<<"parseCmykaString", "cmyk">>, <<"parseHwbaString", "hwb">>>>]
  /\ proto = {"toCmyk", "toCmykString", "toHwb", "toHwbString"}
  /\ installed = <<"cmyk", "hwb">>
  /\ input = None
  /\ parsed = None
  /\ rgba \in Colours
  /\ view = None
  /\ back = None

\* what a method returned: model is the converter's result, value the method's
Shown(method, digits, model, value) ==
  /\ view = None
  /\ view' = [method |-> method, digits |-> digits, model |-> model, value |-> value]
  /\ UNCHANGED <<parsers, proto, installed, input, parsed, rgba, back>>

\* the numbers of a model as the properties of an object
JsObject(value) == [f \in DOMAIN value |-> Num(value[f])]

\* ColordClass.prototype.toCmyk = function (digits = 0)
CmykView(cmyka) ==
  \E digits \in Precisions : Shown("toCmyk", digits, cmyka, roundCmyka(cmyka, digits))

toCmyk == CmykView(rgbaToCmyka(rgba))

\* ColordClass.prototype.toHwb = function (digits = 0)
HwbView(hwba) ==
  \E digits \in Precisions : Shown("toHwb", digits, hwba, roundHwba(hwba, digits))

toHwb == HwbView(rgbaToHwba(rgba))

\* the object a method returned, given to the parser fn
ParsedBack(method, result) ==
  /\ view # None
  /\ view.method = method
  /\ back = None
  /\ back' = result
  /\ UNCHANGED <<parsers, proto, installed, input, parsed, rgba, view>>

BackCmyk == ParsedBack("toCmyk", parseCmyka(JsObject(view.value)))

BackHwb == ParsedBack("toHwb", parseHwba(JsObject(view.value)))

NextViews == toCmyk \/ toHwb \/ BackCmyk \/ BackHwb

SpecViews == InitViews /\ [][NextViews]_vars

(***************************************************************************)
(* The LAB and LCH views of a colour handle: toLab and toLch are called on *)
(* it, and the converter's result is converted back.                      *)
(***************************************************************************)
LabLevels == 4

\* LabLevels + 1 levels spread evenly over 0..255
LabColours ==
  {[r |-> FromInt((255 * r) \div LabLevels), g |-> FromInt((255 * g) \div LabLevels),
    b |-> FromInt((255 * b) \div LabLevels), a |-> One] :
     r \in 0..LabLevels, g \in 0..LabLevels, b \in 0..LabLevels}

\* the lab and lch plugins are installed
InitLab ==
  /\ parsers = [object |-> <<<<"parseLaba", "lab">>, <<"parseLcha", "lch">>>>,
                string |-> <<<<"parseLchaString", "lch">>>>]
  /\ proto = {"toLab", "delta", "toLch", "toLchString"}
  /\ installed = <<"lab", "lch">>
  /\ input = None
  /\ parsed = None
  /\ rgba \in LabColours
  /\ view = None
  /\ back = None

LabView(laba) ==
  \E digits \in Precisions : Shown("toLab", digits, laba, roundLaba(laba, digits))

\* ColordClass.prototype.toLab = function (digits = 2)
toLab == LabView(rgbaToLaba(rgba))

LchView(lcha) ==
  \E digits \in Precisions : Shown("toLch", digits, lcha, roundLcha(lcha, digits))

\* ColordClass.prototype.toLch = function (digits = 2)
toLch == LchView(rgbaToLcha(rgba))

\* the converter's result, given to the inverse converter
BackLab == ParsedBack("toLab", labaToRgba(view.model))

BackLch == ParsedBack("toLch", lchaToRgba(view.model))

NextLab == toLab \/ toLch \/ BackLab \/ BackLch

SpecLab == InitLab /\ [][NextLab]_vars

(***************************************************************************)
(* clampHue and clampLcha called on angles from below -360 to above 720,   *)
(* NaN and the infinities.  input records the call and parsed the result.  *)
(***************************************************************************)
MaxDegrees == 361

\* the whole degrees up to MaxDegrees either way, two turns, halves, and what is
\* not finite
Degrees ==
  {FromInt(n) : n \in (-MaxDegrees)..MaxDegrees}
    \cup {FromInt(720), FromInt(-720), FromInt(725), Dec(-5, 1), Dec(3595, 1),
          Dec(7205, 1), NaN, Inf(0), Inf(1)}

CallClampHue == \E degrees \in Degrees : Returned("clampHue", degrees, clampHue(degrees))

\* an LCH colour of lightness 50, chroma 30 and alpha 0.5 with the hue h
Lch(h) == [l |-> FromInt(50), c |-> FromInt(30), h |-> h, a |-> Dec(5, 1)]

CallClampLcha == \E h \in Degrees : Returned("clampLcha", Lch(h), clampLcha(Lch(h)))

NextHue == CallClampHue \/ CallClampLcha

SpecHue == Init /\ [][NextHue]_vars

(***************************************************************************)
(* The strings of a colour handle: toCmykString, toHwbString and           *)
(* toLchString are called with a number of digits on colours whose alpha   *)
(* is 1, just below 1, and well below 1.                                   *)
(***************************************************************************)
\* alpha 1, alphas that round to 1 at 3 digits and not at 6, and alphas that do not
Translucencies ==
  {One, Dec(999995, 6), Dec(9996, 4), Dec(9995, 4), Dec(9994, 4), Dec(5, 1), Dec(12345, 5),
   Zero}

Tinted ==
  {[r |-> FromInt(c[1]), g |-> FromInt(c[2]), b |-> FromInt(c[3]), a |-> a] :
     c \in {<<255, 0, 0>>, <<12, 200, 99>>, <<128, 128, 128>>}, a \in Translucencies}

\* the digits the string methods are called with: their defaults 0 and 2, and 3 and 6
StringPrecisions == {0, 2, 3, 6}

\* the cmyk, hwb and lch plugins are installed
InitStrings ==
  /\ parsers = [object |-> <<<<"parseCmyka", "cmyk">>, <<"parseHwba", "hwb">>,
                             <<"parseLcha", "lch">>>>,
                string |-> <<<<"parseCmykaString", "cmyk">>, <<"parseHwbaString", "hwb">>,
                             <<"parseLchaString", "lch">>>>]
  /\ proto = {"toCmyk", "toCmykString", "toHwb", "toHwbString", "toLch", "toLchString"}
  /\ installed = <<"cmyk", "hwb", "lch">>
  /\ input = None
  /\ parsed = None
  /\ rgba \in Tinted
  /\ view = None
  /\ back = None

\* ColordClass.prototype.toCmykString = function (digits = 2)
toCmykString ==
  \E digits \in StringPrecisions :
    Shown("toCmykString", digits, rgbaToCmyka(rgba), rgbaToCmykaString(rgba, digits))

\* ColordClass.prototype.toHwbString = function (digits = 0)
toHwbString ==
  \E digits \in StringPrecisions :
    Shown("toHwbString", digits, rgbaToHwba(rgba), rgbaToHwbaString(rgba, digits))

LchText(lcha) ==
  \E digits \in StringPrecisions :
    Shown("toLchString", digits, lcha, LchaStringAt(lcha, digits))

\* ColordClass.prototype.toLchString = function (digits = 2)
toLchString == LchText(rgbaToLcha(rgba))

NextStrings == toCmykString \/ toHwbString \/ toLchString

SpecStrings == InitStrings /\ [][NextStrings]_vars

(***************************************************************************)
(* roundCmyka, roundHwba, roundLcha and roundLaba called with 0 to         *)
(* MaxDigits digits on colours whose alpha has five decimals.              *)
(***************************************************************************)
MaxDigits == 5

\* alphas of up to five decimals, and 0 and 1
Decimals ==
  {Zero, One, Dec(12345, 5), Dec(5, 1), Dec(67891, 5), Dec(99951, 5), Dec(4, 4),
   Dec(33333, 5)}

\* fn(model, digits) was called
Rounding(fn, model, digits, result) ==
  Returned(fn, [model |-> model, digits |-> digits], result)

CallRoundCmyka ==
  \E a \in Decimals, digits \in 0..MaxDigits :
    Rounding("roundCmyka",
             [c |-> Dec(123456, 4), m |-> Zero, y |-> F100, k |-> Dec(5, 1), a |-> a], digits,
             roundCmyka([c |-> Dec(123456, 4), m |-> Zero, y |-> F100, k |-> Dec(5, 1),
                         a |-> a], digits))

CallRoundHwba ==
  \E a \in Decimals, digits \in 0..MaxDigits :
    Rounding("roundHwba", [h |-> Dec(3597654, 4), w |-> Dec(123456, 4), b |-> Zero, a |-> a],
             digits,
             roundHwba([h |-> Dec(3597654, 4), w |-> Dec(123456, 4), b |-> Zero, a |-> a],
                       digits))

CallRoundLcha ==
  \E a \in Decimals, digits \in 0..MaxDigits :
    Rounding("roundLcha", [l |-> Dec(501234, 4), c |-> Dec(3, 5), h |-> F360, a |-> a],
             digits,
             roundLcha([l |-> Dec(501234, 4), c |-> Dec(3, 5), h |-> F360, a |-> a], digits))

CallRoundLaba ==
  \E a \in Decimals, digits \in 0..MaxDigits :
    Rounding("roundLaba",
             [l |-> Dec(501234, 4), a |-> Dec(-203456, 4), b |-> Dec(5, 1), alpha |-> a],
             digits,
             roundLaba([l |-> Dec(501234, 4), a |-> Dec(-203456, 4), b |-> Dec(5, 1),
                        alpha |-> a], digits))

NextRound == CallRoundCmyka \/ CallRoundHwba \/ CallRoundLcha \/ CallRoundLaba

SpecRound == Init /\ [][NextRound]_vars

(***************************************************************************)
(* The converters called on colours of several alphas, and the inverse     *)
(* converter called on what a converter returned.  view records the        *)
(* converter and its result, back the result of the inverse.               *)
(***************************************************************************)
\* alphas of [0, 1]: the ends, decimals, and a third
Carriable == {Zero, One, Dec(5, 1), Dec(12345, 5), Dec(999995, 6), FDiv(One, FromInt(3))}

Translucent ==
  {[r |-> FromInt(c[1]), g |-> FromInt(c[2]), b |-> FromInt(c[3]), a |-> a] :
     c \in {<<12, 200, 99>>, <<255, 255, 255>>}, a \in Carriable}

InitAlpha ==
  /\ parsers = [object |-> <<>>, string |-> <<>>]
  /\ proto = {}
  /\ installed = <<>>
  /\ input = None
  /\ parsed = None
  /\ rgba \in Translucent
  /\ view = None
  /\ back = None

\* the converter fn was called on rgba and returned model
Converted(fn, model) ==
  /\ view = None
  /\ view' = [method |-> fn, model |-> model]
  /\ UNCHANGED <<parsers, proto, installed, input, parsed, rgba, back>>

CallRgbaToCmyka == Converted("rgbaToCmyka", rgbaToCmyka(rgba))
CallRgbaToHwba == Converted("rgbaToHwba", rgbaToHwba(rgba))
CallRgbaToXyza == Converted("rgbaToXyza", rgbaToXyza(rgba))
CallRgbaToLaba == Converted("rgbaToLaba", rgbaToLaba(rgba))
CallRgbaToLcha == Converted("rgbaToLcha", rgbaToLcha(rgba))

CallCmykaToRgba == ParsedBack("rgbaToCmyka", cmykaToRgba(view.model))
CallHwbaToRgba == ParsedBack("rgbaToHwba", hwbaToRgba(view.model))
CallXyzaToRgba == ParsedBack("rgbaToXyza", xyzaToRgba(view.model))
CallLabaToRgba == ParsedBack("rgbaToLaba", labaToRgba(view.model))
CallLchaToRgba == ParsedBack("rgbaToLcha", lchaToRgba(view.model))

NextAlpha ==
  \/ CallRgbaToCmyka \/ CallRgbaToHwba \/ CallRgbaToXyza \/ CallRgbaToLaba
  \/ CallRgbaToLcha
  \/ CallCmykaToRgba \/ CallHwbaToRgba \/ CallXyzaToRgba \/ CallLabaToRgba
  \/ CallLchaToRgba

SpecAlpha == InitAlpha /\ [][NextAlpha]_vars

(***************************************************************************)
(* The string parsers called on sentences that end with no alpha, with a   *)
(* bare alpha and with a percentage, inside and outside [0, 1].            *)
(***************************************************************************)
\* the ends "/ alpha )": text is what is written, and the number written is
\* n / 10^scale, followed by a % when percent
Written ==
  {[text |-> <<" ", "/", " ", "0", ".", "5", ")">>, n |-> 5, scale |-> 1, percent |-> FALSE],
   [text |-> <<"/", "5", "0", "%", " ", ")">>, n |-> 50, scale |-> 0, percent |-> TRUE],
   [text |-> <<"/", " ", "2", ")">>, n |-> 2, scale |-> 0, percent |-> FALSE],
   [text |-> <<" ", "/", "1", "5", "0", "%", ")">>, n |-> 150, scale |-> 0, percent |-> TRUE],
   [text |-> <<"/", " ", "-", "0", ".", "5", ")">>, n |-> -5, scale |-> 1, percent |-> FALSE],
   [text |-> <<"/", "-", "2", "0", "%", ")">>, n |-> -20, scale |-> 0, percent |-> TRUE],
   [text |-> <<"/", " ", ".", "2", "5", " ", ")">>, n |-> 25, scale |-> 2, percent |-> FALSE],
   [text |-> <<"/", "1", "2", ".", "5", "%", ")">>, n |-> 125, scale |-> 1, percent |-> TRUE],
   [text |-> <<"/", " ", "0", ")">>, n |-> 0, scale |-> 0, percent |-> FALSE],
   [text |-> <<"/", "+", "1", ")">>, n |-> 1, scale |-> 0, percent |-> FALSE],
   [text |-> <<"/", " ", "1", "0", "0", "%", ")">>, n |-> 100, scale |-> 0, percent |-> TRUE],
   [text |-> <<"/", "0", ".", "3", "%", ")">>, n |-> 3, scale |-> 1, percent |-> TRUE]}

\* the ends of the sentences: no alpha, and each of Written
Ends == {<<")">>, <<" ", ")">>} \cup {end.text : end \in Written}

CallCmykaStringAlpha ==
  \E str \in CmykWritten(CmykOpens, CmykKeys, Ends) :
    Returned("parseCmykaString", str, parseCmykaString(str))

CallHwbaStringAlpha ==
  \E str \in HwbWritten(HwbOpens, HwbWhites, Ends) :
    Returned("parseHwbaString", str, parseHwbaString(str))

CallLchaStringAlpha ==
  \E str \in LchWritten(LchOpens, LchLights, Ends) :
    Returned("parseLchaString", str, parseLchaString(str))

NextSuffix == CallCmykaStringAlpha \/ CallHwbaStringAlpha \/ CallLchaStringAlpha

SpecSuffix == Init /\ [][NextSuffix]_vars

(***************************************************************************)
(* Accessibility: luminance, contrast and isReadable are called on a       *)
(* colour handle, the last two with a second colour.  view records the     *)
(* call and what it returned.                                              *)
(***************************************************************************)
A11yLevels == 2

\* A11yLevels + 1 levels spread evenly over 0..255
Shades ==
  {[r |-> FromInt((255 * r) \div A11yLevels), g |-> FromInt((255 * g) \div A11yLevels),
    b |-> FromInt((255 * b) \div A11yLevels), a |-> One] :
     r \in 0..A11yLevels, g \in 0..A11yLevels, b \in 0..A11yLevels}

\* white, black, two grays, and two colours, as instance2.toRgb() returns them
Compared ==
  {[r |-> FromInt(c[1]), g |-> FromInt(c[2]), b |-> FromInt(c[3]), a |-> One] :
     c \in {<<255, 255, 255>>, <<0, 0, 0>>, <<118, 118, 118>>, <<149, 149, 149>>,
            <<12, 200, 99>>, <<255, 0, 0>>}}

\* the options of isReadable: none, and a level, a size or both
Options ==
  {<<>>} \cup {[level |-> level] : level \in {AA, AAA}} \cup {[size |-> size] : size \in {Normal, Large}}
    \cup {[level |-> level, size |-> size] : level \in {AA, AAA}, size \in {Normal, Large}}

\* the a11y plugin is installed
InitA11y ==
  /\ parsers = [object |-> <<>>, string |-> <<>>]
  /\ proto = {"luminance", "contrast", "isReadable"}
  /\ installed = <<"a11y">>
  /\ input = None
  /\ parsed = None
  /\ rgba \in Shades
  /\ view = None
  /\ back = None

\* a method was called with the arguments args and returned value
Answered(method, args, value) ==
  /\ view = None
  /\ view' = [method |-> method, args |-> args, value |-> value]
  /\ UNCHANGED <<parsers, proto, installed, input, parsed, rgba, back>>

Luminance == Answered("luminance", <<>>, luminance(rgba))

Contrast == \E color2 \in Compared : Answered("contrast", <<color2>>, contrast(rgba, color2))

\* white and black
Grounds ==
  {[r |-> FromInt(c), g |-> FromInt(c), b |-> FromInt(c), a |-> One] : c \in {0, 255}}

IsReadable ==
  \E color2 \in Grounds, options \in Options :
    Answered("isReadable", <<color2, options>>, isReadable(rgba, color2, options))

NextA11y == Luminance \/ Contrast \/ IsReadable

SpecA11y == InitA11y /\ [][NextA11y]_vars

(***************************************************************************)
(* The lab plugin's delta, called on a handle with another handle          *)
(***************************************************************************)
\* black, white and a gray, which have no chroma, and colours around the hue
\* circle: in LAB rose lies near 4 degrees, red near 40, yellow near 100, green
\* near 135, cyan near 195, blue near 300 and magenta near 330
Wheel ==
  {[r |-> FromInt(c[1]), g |-> FromInt(c[2]), b |-> FromInt(c[3]), a |-> One] :
     c \in {<<0, 0, 0>>, <<255, 255, 255>>, <<128, 128, 128>>, <<255, 0, 0>>,
            <<255, 255, 0>>, <<0, 255, 0>>, <<0, 255, 255>>, <<0, 0, 255>>,
            <<255, 0, 255>>, <<255, 0, 128>>}}

InitDelta ==
  /\ parsers = [object |-> <<<<"parseLaba", "lab">>>>, string |-> <<>>]
  /\ proto = {"toLab", "delta"}
  /\ installed = <<"lab">>
  /\ input = None
  /\ parsed = None
  /\ rgba \in Wheel
  /\ view = None
  /\ back = None

\* delta(color) with color a handle: this.toLab() is taken once, compared.toLab()
\* for the colour of each handle it is called with
Delta ==
  \E lab1 \in {Lab2(rgba)} : \E color \in Wheel :
    Answered("delta", <<color>>, Normal3(getDeltaE00(lab1, Lab2(color))))

NextDelta == Delta

SpecDelta == InitDelta /\ [][NextDelta]_vars

(***************************************************************************)
(* parseCmykaString called on sentences whose c, m, y and k are written    *)
(* as percentages and as bare numbers, inside and outside the range        *)
(***************************************************************************)
\* a channel as it is written: the number written is n / 10^scale, followed by a
\* % when percent
Inked ==
  {[text |-> <<"0", "%">>, n |-> 0, scale |-> 0, percent |-> TRUE],
   [text |-> <<"1", "0", "0", "%">>, n |-> 100, scale |-> 0, percent |-> TRUE],
   [text |-> <<"0">>, n |-> 0, scale |-> 0, percent |-> FALSE],
   [text |-> <<"1">>, n |-> 1, scale |-> 0, percent |-> FALSE],
   [text |-> <<".", "2", "5">>, n |-> 25, scale |-> 2, percent |-> FALSE],
   [text |-> <<"+", "3", "3", ".", "3", "%">>, n |-> 333, scale |-> 1, percent |-> TRUE],
   [text |-> <<"1", "5", "0", "%">>, n |-> 150, scale |-> 0, percent |-> TRUE],
   [text |-> <<"-", "2">>, n |-> -2, scale |-> 0, percent |-> FALSE]}

\* device-cmyk(c m y k)
DeviceCmyk(c, m, y, k) ==
  <<"d", "e", "v", "i", "c", "e", "-", "c", "m", "y", "k", "(">>
    \o c \o <<" ">> \o m \o <<" ">> \o y \o <<" ">> \o k \o <<")">>

CallCmykaStringInks ==
  \E c \in Inked, m \in Inked, y \in Inked, k \in Inked :
    Returned("parseCmykaString", DeviceCmyk(c.text, m.text, y.text, k.text),
             parseCmykaString(DeviceCmyk(c.text, m.text, y.text, k.text)))

NextInks == CallCmykaStringInks

SpecInks == Init /\ [][NextInks]_vars

(***************************************************************************)
(* parseHwbaString and parseLchaString called on sentences whose function  *)
(* name and angle unit are written in lower, upper and mixed case          *)
(***************************************************************************)
\* the hues: the number written is n / 10^scale
Angles ==
  {[text |-> <<"1", "0", "0">>, n |-> 100, scale |-> 0],
   [text |-> <<".", "5">>, n |-> 5, scale |-> 1],
   [text |-> <<"-", "3", "0">>, n |-> -30, scale |-> 0]}

\* no unit, and the four units as they may be written
Units ==
  {<<>>, <<"d", "e", "g">>, <<"D", "E", "G">>, <<"r", "a", "d">>, <<"R", "a", "d">>,
   <<"g", "r", "a", "d">>, <<"G", "R", "A", "D">>, <<"t", "u", "r", "n">>,
   <<"T", "u", "r", "N">>}

\* hwb(h 20% 30%) with the name as written
HwbTurned(name, h, unit) ==
  name \o <<"(">> \o h \o unit \o <<" ", "2", "0", "%", " ", "3", "0", "%", ")">>

\* lch(50% 30 h) with the name as written
LchTurned(name, h, unit) ==
  name \o <<"(", "5", "0", "%", " ", "3", "0", " ">> \o h \o unit \o <<")">>

CallHwbaStringUnit ==
  \E name \in {<<"h", "w", "b">>, <<"H", "W", "B">>, <<"H", "w", "b">>},
     h \in Angles, unit \in Units :
    Returned("parseHwbaString", HwbTurned(name, h.text, unit),
             parseHwbaString(HwbTurned(name, h.text, unit)))

CallLchaStringUnit ==
  \E name \in {<<"l", "c", "h">>, <<"L", "C", "H">>},
     h \in {a \in Angles : a.scale = 0}, unit \in Units :
    Returned("parseLchaString", LchTurned(name, h.text, unit),
             parseLchaString(LchTurned(name, h.text, unit)))

NextUnits == CallHwbaStringUnit \/ CallLchaStringUnit

SpecUnits == Init /\ [][NextUnits]_vars

(***************************************************************************)
(* The palettes of a handle: tints, shades and tones called with a count   *)
(***************************************************************************)
MaxCount == 3

\* the colours of the handles "#fff", "#000" and "#808080"
Fff == [r |-> F255, g |-> F255, b |-> F255, a |-> One]
Black000 == [r |-> Zero, g |-> Zero, b |-> Zero, a |-> One]
Gray808080 == [r |-> FromInt(128), g |-> FromInt(128), b |-> FromInt(128), a |-> One]

\* the colours of the source handles
Sources ==
  {[r |-> FromInt(c[1]), g |-> FromInt(c[2]), b |-> FromInt(c[3]), a |-> One] :
     c \in {<<0, 0, 0>>, <<255, 255, 255>>, <<128, 128, 128>>, <<255, 0, 0>>,
            <<0, 255, 0>>, <<0, 0, 255>>, <<255, 255, 0>>, <<0, 255, 255>>,
            <<255, 0, 255>>, <<200, 100, 50>>, <<12, 200, 99>>, <<64, 64, 192>>}}

InitPalette ==
  /\ parsers = [object |-> <<>>, string |-> <<>>]
  /\ proto = {"mix", "tints", "shades", "tones"}
  /\ installed = <<"mix">>
  /\ input = None
  /\ parsed = None
  /\ rgba \in Sources
  /\ view = None
  /\ back = None

\* a palette method was called with count: value is the palette, ratios the
\* ratios its entries were mixed at
Listed(method, count, palette) ==
  /\ view = None
  /\ view' = [method |-> method, args |-> <<count>>,
              value |-> [n \in DOMAIN palette |-> palette[n].colour],
              ratios |-> [n \in DOMAIN palette |-> palette[n].ratio]]
  /\ UNCHANGED <<parsers, proto, installed, input, parsed, rgba, back>>

\* tints mixes with "#fff", shades with "#000" and tones with "#808080"
tints == [method |-> "tints", hex |-> Fff]
shades == [method |-> "shades", hex |-> Black000]
tones == [method |-> "tones", hex |-> Gray808080]

CallPalette ==
  \E called \in {tints, shades, tones}, count \in 1..MaxCount :
    Listed(called.method, count, mixPalette(rgba, called.hex, count))

NextPalette == CallPalette

SpecPalette == InitPalette /\ [][NextPalette]_vars

(***************************************************************************)
(* Properties.                                                             *)
(***************************************************************************)
ObjectParsers == {"parseCmyka", "parseHwba", "parseLaba", "parseLcha"}
StringParsers == {"parseCmykaString", "parseHwbaString", "parseLchaString"}

\* c is an RGBA whose r, g, b are in [0, 255] and whose a is in [0, 1], none NaN
Normalized(c) ==
  /\ DOMAIN c = {"r", "g", "b", "a"}
  /\ \A ch \in {"r", "g", "b"} : FGe(c[ch], Zero) /\ FLe(c[ch], F255)
  /\ FGe(c.a, Zero) /\ FLe(c.a, One)

\* each of r, g, b of c is within tolerance of that of d
Within(c, d, tolerance) ==
  \A ch \in {"r", "g", "b"} :
    /\ FLe(FSub(c[ch], d[ch]), tolerance)
    /\ FLe(FSub(d[ch], c[ch]), tolerance)

\* some channel of c is exactly distance away from that of d
Apart(c, d, distance) ==
  \E ch \in {"r", "g", "b"} :
    FEq(FSub(c[ch], d[ch]), distance) \/ FEq(FSub(d[ch], c[ch]), distance)

Black(c) == \A ch \in {"r", "g", "b"} : FEq(c[ch], Zero)

\* C1: every colour a parser returns (a result that is not null) is a normalized
\* RGBA: r, g and b in [0, 255], a in [0, 1], no channel NaN, whatever the input.
C1_ParsersNormalize ==
  (input # None /\ parsed # JsNull /\ parsed # TypeError) => Normalized(parsed)

\* the index of the first entry of results that is not null, 0 if there is none
FirstMatch(results) ==
  IF \A i \in 1..Len(results) : results[i] = JsNull THEN 0
  ELSE CHOOSE i \in 1..Len(results) :
         results[i] # JsNull /\ \A j \in 1..(i - 1) : results[j] = JsNull

\* the index of the first installation of the plugin name, 0 if it is not installed
InstalledAt(name) ==
  IF \A i \in 1..Len(installed) : installed[i] # name THEN 0
  ELSE CHOOSE i \in 1..Len(installed) :
         installed[i] = name /\ \A j \in 1..(i - 1) : installed[j] # name

\* the list an input is dispatched over, and what its parsers are given
Dispatched == IF input.t = "string" THEN parsers.string ELSE parsers.object
Given == IF input.t = "string" THEN input.s ELSE input.o

\* C2: dispatch returns the result and the format name of the earliest registered
\* parser whose result is not null, and null when there is none; an object with
\* l, a, b, c and h is "lab" when the lab plugin was installed before the lch
\* plugin and "lch" when it was installed after.
C2_FirstMatchWins ==
  input # None =>
    LET results == [i \in 1..Len(Dispatched) |-> Call(Dispatched[i][1], Given)]
        first == FirstMatch(results)
    IN  /\ IF first = 0
           THEN parsed.result = JsNull /\ parsed.format = Undefined
           ELSE /\ parsed.result # JsNull
                /\ parsed.result = results[first]
                /\ parsed.format = Dispatched[first][2]
        /\ (input = LabLchObject /\ InstalledAt("lab") # 0 /\ InstalledAt("lch") # 0) =>
             /\ parsed.result # JsNull
             /\ parsed.format = IF InstalledAt("lab") < InstalledAt("lch") THEN "lab" ELSE "lch"

\* C2: the lab plugin was installed after a plugin whose parser rejects the
\* object and before the lch plugin, and the object was reported as "lab".
C2_LabBeforeLch ==
  /\ installed = <<"cmyk", "lab", "lch">>
  /\ input = LabLchObject
  /\ parsed.tried[1] = JsNull
  /\ parsed.format = "lab"

\* s is the start of t
Prefix(s, t) == Len(s) <= Len(t) /\ SubSeq(t, 1, Len(s)) = s

\* the entries of list' that were not in list
Pushed(old, new) == SubSeq(new, Len(old) + 1, Len(new))

\* C3: a step that installs a plugin leaves the entries of both lists where they
\* were and appends: one object and one string parser with the plugin's name for
\* cmyk, hwb and lch, one object parser and no string parser for lab and xyz,
\* nothing for mix, harmonies and a11y; no other step changes the lists.
C3_AppendOnly ==
  [][/\ Prefix(parsers.object, parsers'.object)
     /\ Prefix(parsers.string, parsers'.string)
     /\ IF installed' = installed THEN parsers' = parsers
        ELSE /\ Len(installed') = Len(installed) + 1
             /\ Len(Pushed(parsers.object, parsers'.object)) =
                  IF installed'[Len(installed')] \in {"cmyk", "hwb", "lch", "lab", "xyz"}
                  THEN 1 ELSE 0
             /\ Len(Pushed(parsers.string, parsers'.string)) =
                  IF installed'[Len(installed')] \in {"cmyk", "hwb", "lch"} THEN 1 ELSE 0
             /\ \A e \in {parsers'.object[i] : i \in (Len(parsers.object) + 1)..Len(parsers'.object)}
                    \cup {parsers'.string[i] : i \in (Len(parsers.string) + 1)..Len(parsers'.string)} :
                  e[2] = installed'[Len(installed')]]_vars

\* C3: cmyk, lab and mix were installed in this order, and the lists hold the
\* cmyk parsers followed by the lab parser.
C3_ThreeInstalled ==
  /\ installed = <<"cmyk", "lab", "mix">>
  /\ parsers.object = <<<<"parseCmyka", "cmyk">>, <<"parseLaba", "lab">>>>
  /\ parsers.string = <<<<"parseCmykaString", "cmyk">>>>

\* the channels an object parser requires, and the name it reads alpha from
Required(fn) ==
  CASE fn = "parseCmyka" -> {"c", "m", "y", "k"}
    [] fn = "parseHwba" -> {"h", "w", "b"}
    [] fn = "parseLaba" -> {"l", "a", "b"}
    [] fn = "parseLcha" -> {"l", "c", "h"}

AlphaName(fn) == IF fn = "parseLaba" THEN "alpha" ELSE "a"

\* a channel is missing when it is neither a number nor a non-empty string
Missing(value) == ~(value.t = "number" \/ (value.t = "string" /\ value.s # <<>>))

\* the strings of the inputs that are sentences of the grammar of a string parser
Sentences(fn) ==
  CASE fn = "parseCmykaString" -> CmykWritten(CmykOpens, CmykKeys, Tails \ {<<>>})
    [] fn = "parseHwbaString" -> HwbWritten(HwbOpens, HwbWhites, Tails \ {<<>>})
    [] fn = "parseLchaString" -> LchWritten(LchOpens, LchLights, Tails \ {<<>>})

\* C4: no call of a parser throws; an object parser returns null exactly when a
\* required channel is missing, and with the alpha missing it returns a colour of
\* alpha 1; a string parser returns null exactly when its input is no sentence of
\* its grammar.
C4_NullNeverThrows ==
  input # None =>
    /\ parsed # TypeError
    /\ input.fn \in ObjectParsers =>
         /\ parsed = JsNull <=> \E f \in Required(input.fn) : Missing(input.x[f])
         /\ (/\ \A f \in Required(input.fn) : ~Missing(input.x[f])
             /\ input.x[AlphaName(input.fn)] = Undefined) =>
              (parsed # JsNull /\ FEq(parsed.a, One))
    /\ input.fn \in StringParsers =>
         (parsed = JsNull <=> input.x \notin Sentences(input.fn))

\* toCmyk was called and the object it returned was parsed back
CmykParsedBack == view # None /\ view.method = "toCmyk" /\ back # None

\* C5: the object toCmyk returned, parsed back with parseCmyka, has each of r, g
\* and b within 1 of the original and the original's alpha.
C5_CmykWithinOne ==
  CmykParsedBack => (Within(back, rgba, One) /\ FEq(back.a, rgba.a))

\* C5, amended: the object toCmyk returned, parsed back with parseCmyka, has each
\* of r, g and b within 2 of the original and the original's alpha rounded to 3
\* digits.
C5_CmykWithinTwo ==
  CmykParsedBack =>
    (Within(back, rgba, FromInt(2)) /\ FEq(back.a, round(rgba.a, ALPHA_PRECISION)))

\* C5: a colour was taken to CMYK and back, a channel came back exactly 2 away and
\* the alpha came back changed.
C5_TwoAway == CmykParsedBack /\ Apart(back, rgba, FromInt(2)) /\ ~FEq(back.a, rgba.a)

\* toHwb was called with its default digits and the object it returned was parsed back
HwbParsedBack == view # None /\ view.method = "toHwb" /\ view.digits = 0 /\ back # None

\* C6: the object toHwb() returned, parsed back with parseHwba, has each of r, g
\* and b within 1 of the original.
C6_HwbWithinOne == HwbParsedBack => Within(back, rgba, One)

\* C6, amended: the object toHwb() returned, parsed back with parseHwba, has each
\* of r, g and b within 3.25 of the original.
C6_HwbWithinThreeAndAQuarter == HwbParsedBack => Within(back, rgba, Dec(325, 2))

\* C6: a colour was taken to HWB and back and a channel came back exactly 3.25 away.
C6_ThreeAndAQuarterAway == HwbParsedBack /\ Apart(back, rgba, Dec(325, 2))

\* C7: rgbaToLaba followed by labaToRgba, and rgbaToLcha followed by lchaToRgba,
\* give back each of r, g and b within 1 of the original.
C7_LabLchWithinOne ==
  (view # None /\ view.method \in {"toLab", "toLch"} /\ back # None) =>
    Within(back, rgba, One)

\* C7: a colour that is not gray went to LCH and back and came back within 1 of
\* the original but not equal to it.
C7_LchBack ==
  /\ view # None
  /\ view.method = "toLch"
  /\ back # None
  /\ rgba.r # rgba.g
  /\ \E ch \in {"r", "g", "b"} : ~FEq(back[ch], rgba[ch])
  /\ Within(back, rgba, One)

\* the CMYK percentages of a colour before any rounding
Percentages(of, k) ==
  [f \in {"c", "m", "y", "k"} |->
     IF f = "k" THEN FMul(k, F100)
     ELSE IF IsNaN(FDiv(FSub(FSub(One, of[f]), k), FSub(One, k))) THEN Zero
     ELSE FMul(FDiv(FSub(FSub(One, of[f]), k), FSub(One, k)), F100)]

Shares(c) == [c |-> FDiv(c.r, F255), m |-> FDiv(c.g, F255), y |-> FDiv(c.b, F255)]

Exact(c) == Percentages(Shares(c), FSub(One, MathMax(Shares(c).c, Shares(c).m, Shares(c).y)))

\* C8: each channel but alpha that toCmyk(digits) and toHwb(digits) return is the
\* exact value of the model rounded once to digits, and the converters rgbaToCmyka
\* and rgbaToHwba return the exact values.
C8_RoundedOnce ==
  view # None =>
    /\ view.method = "toCmyk" =>
         \A f \in {"c", "m", "y", "k"} :
           /\ FEq(view.model[f], Exact(rgba)[f])
           /\ FEq(view.value[f], round(Exact(rgba)[f], view.digits))
    /\ view.method = "toHwb" =>
         \A f \in {"h", "w", "b"} : FEq(view.value[f], round(view.model[f], view.digits))

\* C9: rgbaToCmyka returns no NaN, returns c = m = y = 0 and k = 100 for black,
\* and returns c = m = y = 0 whenever it returns k = 100.
C9_DegenerateCmyk ==
  (view # None /\ view.method = "toCmyk") =>
    /\ \A f \in {"c", "m", "y", "k", "a"} : ~IsNaN(view.model[f])
    /\ Black(rgba) => FEq(view.model.k, F100)
    /\ FEq(view.model.k, F100) => \A f \in {"c", "m", "y"} : FEq(view.model[f], Zero)

\* an HWB object with a hue, a whiteness, a blackness of 100 and an alpha that has
\* a number value
BlackObject ==
  /\ input.fn = "parseHwba"
  /\ ~Missing(input.x.h) /\ ~Missing(input.x.w) /\ ~Missing(input.x.b)
  /\ FEq(Number(input.x.b), F100)
  /\ input.x.a # Symbol

\* an HWB string of the grammar whose blackness is 100%
BlackString ==
  /\ input.fn = "parseHwbaString"
  /\ input.x \in Sentences("parseHwbaString")
  /\ FEq(Number(hwbaMatcher(input.x)[4]), F100)

\* C10: an HWB input with blackness 100, an object given to parseHwba or a string
\* given to parseHwbaString, converts to r = g = b = 0 whatever its hue and
\* whiteness.
C10_BlacknessHundred ==
  (input # None /\ (BlackObject \/ BlackString)) =>
    (parsed # JsNull /\ parsed # TypeError /\ Black(parsed))

\* C10: an object with a hue that is NaN, a whiteness of 150 and a blackness of
\* "100" was parsed to black.
C10_BlackFromObject ==
  /\ input # None
  /\ BlackObject
  /\ input.x.h = Num(NaN)
  /\ input.x.w = N(150)
  /\ input.x.b = Text100
  /\ Black(parsed)

\* the hue clampHue or clampLcha returned for the angle `degrees`
Clamped(fn, degrees) ==
  IF fn = "clampHue" THEN input = [t |-> "call", fn |-> fn, x |-> degrees]
  ELSE input = [t |-> "call", fn |-> fn, x |-> Lch(degrees)]

HueReturned == IF input.fn = "clampHue" THEN parsed ELSE parsed.h

\* C11: clampHue, and the h of clampLcha, is in [0, 360) for every angle: 0 for
\* NaN and the infinities, 359 for -1, 1 for 361 and 0 for 0 and for 360.
C11_HueHalfOpen ==
  (input # None /\ input.fn \in {"clampHue", "clampLcha"}) =>
    /\ FGe(HueReturned, Zero) /\ FLt(HueReturned, F360)
    /\ \A fn \in {"clampHue", "clampLcha"} :
         /\ Clamped(fn, FromInt(-1)) => FEq(HueReturned, FromInt(359))
         /\ Clamped(fn, FromInt(361)) => FEq(HueReturned, One)
         /\ (\E d \in {NaN, Inf(0), Inf(1), Zero, F360} : Clamped(fn, d)) =>
              FEq(HueReturned, Zero)

\* h is a hue of the half-open range [0, 360)
HalfOpen(h) == FGe(h, Zero) /\ FLt(h, F360)

\* C12: the h that toHwb(digits) and toLch(digits) return is in [0, 360), and so
\* is the h of the converters before it is rounded to digits.
C12_ViewHueHalfOpen ==
  (view # None /\ view.method \in {"toHwb", "toLch"}) =>
    (HalfOpen(view.model.h) /\ HalfOpen(view.value.h))

\* the text of a template has a slash
Slashed(string) ==
  \E i \in DOMAIN string.pieces :
    /\ string.pieces[i].t = "string"
    /\ \E j \in DOMAIN string.pieces[i].s : string.pieces[i].s[j] = "/"

\* the number substituted last in a template
LastNumber(string) == string.pieces[Len(string.pieces) - 1].n

\* the digits alpha is rounded to
AlphaDigits(digits) == IF digits > ALPHA_PRECISION THEN digits ELSE ALPHA_PRECISION

StringMethods == {"toCmykString", "toHwbString", "toLchString"}

\* C13: toCmykString, toHwbString and toLchString write " / alpha" exactly when
\* the alpha rounded to max(3, digits) digits is less than 1, and the alpha they
\* write is that rounded alpha.
C13_AlphaSuffix ==
  (view # None /\ view.method \in StringMethods) =>
    /\ Slashed(view.value) <=> FLt(round(rgba.a, AlphaDigits(view.digits)), One)
    /\ Slashed(view.value) =>
         FEq(LastNumber(view.value), round(rgba.a, AlphaDigits(view.digits)))

\* C13: a colour of alpha 0.999995 was written by toLchString(3) without an alpha.
C13_AlmostOpaque ==
  /\ view # None
  /\ view.method = "toLchString"
  /\ view.digits = 3
  /\ FEq(rgba.a, Dec(999995, 6))
  /\ ~Slashed(view.value)

\* the alpha of a model that roundLaba or another rounding was given or returned
AlphaOf(fn, model) == IF fn = "roundLaba" THEN model.alpha ELSE model.a

Roundings == {"roundCmyka", "roundHwba", "roundLcha", "roundLaba"}

\* C14: roundCmyka, roundHwba, roundLcha and roundLaba round alpha to max(3,
\* digits) digits: to 3 digits when digits is 0, 1 or 2, so that 0.12345 becomes
\* 0.123, and to digits when digits is more than 3.
C14_AlphaPrecisionFloor ==
  (input # None /\ input.fn \in Roundings) =>
    /\ FEq(AlphaOf(input.fn, parsed),
           round(AlphaOf(input.fn, input.x.model),
                 IF input.x.digits < 3 THEN 3 ELSE input.x.digits))
    /\ (input.x.digits <= 3 /\ AlphaOf(input.fn, input.x.model) = Dec(12345, 5)) =>
         FEq(AlphaOf(input.fn, parsed), Dec(123, 3))
    /\ (input.x.digits = 4 /\ AlphaOf(input.fn, input.x.model) = Dec(67891, 5)) =>
         FEq(AlphaOf(input.fn, parsed), Dec(6789, 4))

\* C14: roundLcha was called with 0 digits on an alpha of 0.12345 and returned
\* the alpha 0.123 beside a lightness of 50.
C14_ThreeDigitsKept ==
  /\ input # None
  /\ input.fn = "roundLcha"
  /\ input.x.digits = 0
  /\ input.x.model.a = Dec(12345, 5)
  /\ FEq(parsed.a, Dec(123, 3))
  /\ FEq(parsed.l, FromInt(50))

\* the alpha of what a converter returned
Opacity(fn, model) == IF fn = "rgbaToLaba" THEN model.alpha ELSE model.a

Converters == {"rgbaToCmyka", "rgbaToHwba", "rgbaToXyza", "rgbaToLaba", "rgbaToLcha"}

\* C15: what rgbaToCmyka, rgbaToHwba, rgbaToXyza, rgbaToLaba and rgbaToLcha return
\* has the alpha of the colour, and what cmykaToRgba, hwbaToRgba, xyzaToRgba,
\* labaToRgba and lchaToRgba return has the alpha of the model they were given.
C15_AlphaCarried ==
  (view # None /\ view.method \in Converters) =>
    /\ Opacity(view.method, view.model) = rgba.a
    /\ back # None => back.a = Opacity(view.method, view.model)

\* C15: a colour of alpha 1/3 went to XYZ and back and came back with alpha 1/3.
C15_ThirdThroughXyz ==
  /\ view # None
  /\ view.method = "rgbaToXyza"
  /\ back # None
  /\ rgba.a = FDiv(One, FromInt(3))
  /\ back.a = rgba.a

\* str ends with text
EndsWith(str, text) ==
  Len(text) <= Len(str) /\ SubSeq(str, Len(str) - Len(text) + 1, Len(str)) = text

\* the number an end writes: a fraction, or a percentage divided by 100
Fraction(end) ==
  IF end.percent THEN FDiv(Dec(end.n, end.scale), F100) ELSE Dec(end.n, end.scale)

\* C16: a string parser returns alpha 1 for a sentence without "/ alpha", and
\* for one with it the number written, divided by 100 when it has a %, and
\* brought into [0, 1]: 0 when it is below 0 and 1 when it is above 1.
C16_AlphaSuffixParsed ==
  (input # None /\ input.fn \in StringParsers) =>
    /\ parsed # JsNull
    /\ (\A i \in DOMAIN input.x : input.x[i] # "/") => parsed.a = One
    /\ \A end \in Written :
         EndsWith(input.x, end.text) =>
           parsed.a = IF FLt(Fraction(end), Zero) THEN Zero
                      ELSE IF FGt(Fraction(end), One) THEN One
                      ELSE Fraction(end)

\* C16: parseLchaString was given a sentence that ends with "/150%)" and
\* returned a colour of alpha 1.
C16_LchAboveOne ==
  /\ input # None
  /\ input.fn = "parseLchaString"
  /\ EndsWith(input.x, <<" ", "/", "1", "5", "0", "%", ")">>)
  /\ parsed # JsNull
  /\ parsed.a = One

White == [r |-> F255, g |-> F255, b |-> F255, a |-> One]
Dark == [r |-> Zero, g |-> Zero, b |-> Zero, a |-> One]

\* C17: getContrast does not depend on the order of its arguments and is in
\* [1, 21]; contrast() is getContrast floored to 2 decimals: 1 for two colours
\* of equal luminance, 21 for white and black.
C17_ContrastRatio ==
  (view # None /\ view.method = "contrast") =>
    \A ratio \in {getContrast(rgba, view.args[1])} :
      /\ ratio = getContrast(view.args[1], rgba)
      /\ FGe(ratio, One) /\ FLe(ratio, FromInt(21))
      /\ FLe(view.value, ratio)
      /\ FLt(FSub(ratio, view.value), Dec(1, 2))
      /\ view.value = FDiv(MathRound(FMul(view.value, F100)), F100)
      /\ getLuminance(rgba) = getLuminance(view.args[1]) => view.value = One
      /\ ({rgba, view.args[1]} = {White, Dark}) => view.value = FromInt(21)

\* C17: the contrast of black with white was asked for and was 21.
C17_BlackOnWhite ==
  /\ view # None
  /\ view.method = "contrast"
  /\ rgba = Dark
  /\ view.args[1] = White
  /\ view.value = FromInt(21)

\* the level and the size of the options, AA and normal when they are left out
Level(options) == IF "level" \in DOMAIN options THEN options.level ELSE AA
Size(options) == IF "size" \in DOMAIN options THEN options.size ELSE Normal

\* C18: the contrast asked of a text is 7 for AAA and normal, 3 for AA and large
\* and 4.5 otherwise, AA and normal standing for what the options leave out, and
\* isReadable is true exactly when contrast() is at least that.
C18_MinimalContrast ==
  (view # None /\ view.method = "isReadable") =>
    /\ getMinimalContrast(view.args[2]) =
         CASE Level(view.args[2]) = AAA /\ Size(view.args[2]) = Normal -> FromInt(7)
           [] Level(view.args[2]) = AA /\ Size(view.args[2]) = Large -> FromInt(3)
           [] OTHER -> Dec(45, 1)
    /\ view.value <=>
         FGe(contrast(rgba, view.args[1]),
             CASE Level(view.args[2]) = AAA /\ Size(view.args[2]) = Normal -> FromInt(7)
               [] Level(view.args[2]) = AA /\ Size(view.args[2]) = Large -> FromInt(3)
               [] OTHER -> Dec(45, 1))

\* C18: a colour whose contrast with the second colour is at least 4.5 and less
\* than 7 was found readable as a large AAA text.
C18_LargeAaa ==
  /\ view # None
  /\ view.method = "isReadable"
  /\ view.args[2] = [level |-> AAA, size |-> Large]
  /\ FLt(contrast(rgba, view.args[1]), FromInt(7))
  /\ view.value

Gray == [r |-> FromInt(128), g |-> FromInt(128), b |-> FromInt(128), a |-> One]
Cyan == [r |-> Zero, g |-> F255, b |-> F255, a |-> One]
Rose == [r |-> F255, g |-> Zero, b |-> FromInt(128), a |-> One]

\* C19: delta of a colour with itself is 0, grays included; delta is never NaN,
\* is in [0, 1], has 3 decimals and is within 0.0005 of the CIEDE2000 difference
\* of the two toLab() values divided by 100 when that is at most 1, and is 1
\* when it is more.
C19_DeltaIdentityRange ==
  (view # None /\ view.method = "delta") =>
    /\ view.value # NaN
    /\ FGe(view.value, Zero) /\ FLe(view.value, One)
    /\ view.value = FDiv(MathRound(FMul(view.value, FromInt(1000))), FromInt(1000))
    /\ view.args[1] = rgba => view.value = Zero
    /\ \A e00 \in {getDeltaE00(Lab2(rgba), Lab2(view.args[1]))} :
         IF FGt(e00, F100) THEN view.value = One
         ELSE FLe(MathAbs(FSub(view.value, FDiv(e00, F100))), Dec(5, 4))

\* C19: the delta of a gray, which has no chroma, with itself was taken and was 0.
C19_GrayWithItself ==
  /\ view # None
  /\ view.method = "delta"
  /\ rgba = Gray
  /\ view.args[1] = Gray
  /\ view.value = Zero

\* the hues of the two colours, as getDeltaE00 takes them, are more than 180
\* degrees apart
Opposite(lab1, lab2) ==
  FGt(MathAbs(FSub(Turn(HueOf(lab2.a, lab2.b)), Turn(HueOf(lab1.a, lab1.b)))),
      FromInt(180))

\* C20: delta(A, B) = delta(B, A), also for two colours whose hues are more
\* than 180 degrees apart.
C20_DeltaSymmetric ==
  (view # None /\ view.method = "delta") => view.value = delta(view.args[1], rgba)

\* C20: the delta of cyan with rose, whose hues are more than 180 degrees apart
\* and add up to less than 360, was taken, and is not 0 or 1.
C20_CyanWithRose ==
  /\ view # None
  /\ view.method = "delta"
  /\ rgba = Cyan
  /\ view.args[1] = Rose
  /\ Opposite(Lab2(Cyan), Lab2(Rose))
  /\ FGt(view.value, Zero) /\ FLt(view.value, One)

\* the percentage a channel writes: the number with a %, 100 times the number
\* without, brought into [0, 100]
Percentage(ink) ==
  IF FLt(IF ink.percent THEN Dec(ink.n, ink.scale) ELSE FMul(Dec(ink.n, ink.scale), F100),
         Zero) THEN Zero
  ELSE IF FGt(IF ink.percent THEN Dec(ink.n, ink.scale)
              ELSE FMul(Dec(ink.n, ink.scale), F100), F100) THEN F100
  ELSE IF ink.percent THEN Dec(ink.n, ink.scale) ELSE FMul(Dec(ink.n, ink.scale), F100)

\* Math.round(255 * (1 - ink / 100) * (1 - key / 100))
Printed(ink, key) ==
  MathRound(FMul(FMul(F255, FSub(One, FDiv(Percentage(ink), F100))),
                 FSub(One, FDiv(Percentage(key), F100))))

\* C21: parseCmykaString takes each of c, m, y and k written with a % as it is
\* and each written without as 100 times the number, clamps it to [0, 100], and
\* returns round(255 * (1 - c / 100) * (1 - k / 100)) and so for m and y, with
\* alpha 1: magenta for "device-cmyk(0% 100% 0% 0%)" and "device-cmyk(0 1 0 0)".
C21_CmykChannelScaling ==
  (input # None /\ input.fn = "parseCmykaString") =>
    /\ parsed # JsNull
    /\ \A c \in Inked, m \in Inked, y \in Inked, k \in Inked :
         input.x = DeviceCmyk(c.text, m.text, y.text, k.text) =>
           /\ FEq(parsed.r, Printed(c, k))
           /\ FEq(parsed.g, Printed(m, k))
           /\ FEq(parsed.b, Printed(y, k))
           /\ parsed.a = One
    /\ input.x \in {DeviceCmyk(<<"0", "%">>, <<"1", "0", "0", "%">>, <<"0", "%">>, <<"0", "%">>),
                    DeviceCmyk(<<"0">>, <<"1">>, <<"0">>, <<"0">>)} =>
         parsed = [r |-> F255, g |-> Zero, b |-> F255, a |-> One]

\* C21: "device-cmyk(0 1 0 0)" was parsed and gave magenta.
C21_BareMagenta ==
  /\ input # None
  /\ input.fn = "parseCmykaString"
  /\ input.x = DeviceCmyk(<<"0">>, <<"1">>, <<"0">>, <<"0">>)
  /\ parsed = [r |-> F255, g |-> Zero, b |-> F255, a |-> One]

\* the string with its letters in lower case
LowerCased(str) == [i \in 1..Len(str) |-> Fold(str[i])]

\* C22: a sentence of parseHwbaString or parseLchaString gives the RGBA that the
\* same sentence written in lower case gives, whatever the case of its function
\* name and of its angle unit.
C22_CaseInsensitiveResult ==
  (input # None /\ input.fn \in {"parseHwbaString", "parseLchaString"}) =>
    /\ parsed # JsNull
    /\ input.fn = "parseHwbaString" => parsed = parseHwbaString(LowerCased(input.x))
    /\ input.fn = "parseLchaString" => parsed = parseLchaString(LowerCased(input.x))

\* the colour a palette method mixes the source with
Target(method) == (CHOOSE called \in {tints, shades, tones} : called.method = method).hex

\* C23: tints(count), shades(count) and tones(count) return count colours for
\* every count >= 1; entry i is mixed at a finite ratio in [0, 1], the first at
\* ratio 0 and the last at ratio 1, and for count > 1 at i / (count - 1); the
\* first entry is the source colour and the last the target, to within 0.001 a
\* channel.
C23_PaletteRatios ==
  (view # None /\ view.method \in {"tints", "shades", "tones"}) =>
    /\ Len(view.value) = view.args[1]
    /\ \A n \in 1..Len(view.value) :
         /\ IsFinite(view.ratios[n])
         /\ FGe(view.ratios[n], Zero) /\ FLe(view.ratios[n], One)
         /\ view.args[1] > 1 =>
              view.ratios[n] = FDiv(FromInt(n - 1), FromInt(view.args[1] - 1))
    /\ view.ratios[1] = Zero
    /\ view.ratios[Len(view.value)] = One
    /\ Within(view.value[1], rgba, Dec(1, 3))
    /\ Within(view.value[Len(view.value)], Target(view.method), Dec(1, 3))

\* the list without the entries that repeat an earlier one
RECURSIVE Unrepeated(_)
Unrepeated(list) ==
  IF list = <<>> THEN <<>>
  ELSE IF \E i \in 1..(Len(list) - 1) : list[i] = list[Len(list)]
  THEN Unrepeated(SubSeq(list, 1, Len(list) - 1))
  ELSE Append(Unrepeated(SubSeq(list, 1, Len(list) - 1)), list[Len(list)])

\* the entries a plugin pushes onto the two lists
Entries(name) ==
  CASE name = "cmyk" -> [object |-> <<<<"parseCmyka", "cmyk">>>>,
                         string |-> <<<<"parseCmykaString", "cmyk">>>>]
    [] name = "hwb" -> [object |-> <<<<"parseHwba", "hwb">>>>,
                        string |-> <<<<"parseHwbaString", "hwb">>>>]
    [] name = "lch" -> [object |-> <<<<"parseLcha", "lch">>>>,
                        string |-> <<<<"parseLchaString", "lch">>>>]
    [] name = "lab" -> [object |-> <<<<"parseLaba", "lab">>>>, string |-> <<>>]
    [] name = "xyz" -> [object |-> <<<<"parseXyza", "xyz">>>>, string |-> <<>>]
    [] OTHER -> [object |-> <<>>, string |-> <<>>]

\* the list of a kind after the plugins names were installed in this order
RECURSIVE RegistryAfter(_, _)
RegistryAfter(names, kind) ==
  IF names = <<>> THEN <<>>
  ELSE RegistryAfter(SubSeq(names, 1, Len(names) - 1), kind) \o Entries(names[Len(names)])[kind]

\* some plugin was installed more than once
Reinstalled == \E i, j \in 1..Len(installed) : i < j /\ installed[i] = installed[j]

\* C24: what dispatch returns for an input, the result and the format name, is
\* what it returns over the registry of the same installations with every
\* repeated installation left out.
C24_ReinstallSameDispatch ==
  input # None =>
    \A once \in {findValidColor(Given, RegistryAfter(Unrepeated(installed), input.t), 1, <<>>)} :
      /\ parsed.result = once.result
      /\ parsed.format = once.format

\* C24: the lch plugin was installed, then the lab plugin, then the lch plugin
\* again, the object parser list has three entries, and an object both parsers
\* accept was reported as "lch".
C24_LchTwice ==
  /\ installed = <<"lch", "lab", "lch">>
  /\ Reinstalled
  /\ Len(parsers.object) = 3
  /\ input = LabLchObject
  /\ parsed.result # JsNull
  /\ parsed.format = "lch"
====
